---------------------------- MODULE Spec2Model ----------------------------
(***************************************************************************)
(* A model of the peggy grammar compiler pipeline: the diagnostics         *)
(* session, the AST helpers, the six check passes, the proxy-rule removal  *)
(* and the driver (compile) that sequences the stages.                     *)
(*                                                                         *)
(* An AST node is a record with a "type" field, as in lib/parser.d.ts.     *)
(* A location is the path of the node in the grammar (a sequence of        *)
(* naturals): two nodes have the same location only if they are the same   *)
(* node.  A message is the sequence of the pieces its template literal     *)
(* concatenates.                                                           *)
(***************************************************************************)
EXTENDS Integers, Sequences, FiniteSets, TLC

(***************************************************************************)
(* Bounds of the model.                                                    *)
(***************************************************************************)
\* Largest number of rules in a grammar of the rule-name family.
MaxRules == 3
\* Largest number of elements of a sequence of the label family.
MaxElems == 3

Null == "<null>"
NoLoc == << >>
\* JavaScript's undefined, for a value that is otherwise a one-element tuple.
Undefined == << >>

(***************************************************************************)
(* AST constructors (lib/parser.d.ts).  Locations are filled in by Locate. *)
(***************************************************************************)
Literal(v) ==
  [type |-> "literal", value |-> v, ignoreCase |-> FALSE, location |-> NoLoc]
LiteralIC(v) == [Literal(v) EXCEPT !.ignoreCase = TRUE]
AnyChar == [type |-> "any", location |-> NoLoc]
ClassOf(parts) ==
  [type |-> "class", parts |-> parts, inverted |-> FALSE, ignoreCase |-> FALSE,
   location |-> NoLoc]
Class == ClassOf(<<"a">>)
EmptyClass == ClassOf(<< >>)
RuleRef(n) == [type |-> "rule_ref", name |-> n, location |-> NoLoc]
SemanticPredicate(t) ==
  [type |-> t, code |-> "code", codeLocation |-> NoLoc, location |-> NoLoc]
SemanticAnd == SemanticPredicate("semantic_and")
SemanticNot == SemanticPredicate("semantic_not")
Named(n, e) == [type |-> "named", name |-> n, expression |-> e, location |-> NoLoc]
Unary(t, e) == [type |-> t, expression |-> e, location |-> NoLoc]
Labeled(l, p, e) ==
  [type |-> "labeled", label |-> l, pick |-> p, labelLocation |-> NoLoc,
   expression |-> e, location |-> NoLoc]
Action(e) ==
  [type |-> "action", code |-> "code", codeLocation |-> NoLoc,
   expression |-> e, location |-> NoLoc]
Sequence(es) == [type |-> "sequence", elements |-> es, location |-> NoLoc]
Choice(as) == [type |-> "choice", alternatives |-> as, location |-> NoLoc]
Rule(n, e) ==
  [type |-> "rule", name |-> n, nameLocation |-> NoLoc, expression |-> e,
   bytecode |-> Undefined, location |-> NoLoc]

\* Node types whose single child is node.expression (visitor.ts, ExprNodeType,
\* without "rule").
WrapperTypes ==
  {"named", "action", "labeled", "text", "simple_and", "simple_not",
   "optional", "zero_or_more", "one_or_more", "group"}
LeafTypes ==
  {"rule_ref", "semantic_and", "semantic_not", "literal", "class", "any"}

\* The spans the parser gives the nodes: a child's span is its parent's path
\* followed by its position; position 0 is the span of the label of a
\* Labeled, of the code of an Action and of the name of a Rule.
RECURSIVE Locate(_, _)
Locate(node, loc) ==
  CASE node.type = "labeled" ->
         [node EXCEPT !.location = loc,
                      !.labelLocation = Append(loc, 0),
                      !.expression = Locate(node.expression, Append(loc, 1))]
    [] node.type = "action" ->
         [node EXCEPT !.location = loc,
                      !.codeLocation = Append(loc, 0),
                      !.expression = Locate(node.expression, Append(loc, 1))]
    [] node.type = "rule" ->
         [node EXCEPT !.location = loc,
                      !.nameLocation = Append(loc, 0),
                      !.expression = Locate(node.expression, Append(loc, 1))]
    [] node.type \in WrapperTypes ->
         [node EXCEPT !.location = loc,
                      !.expression = Locate(node.expression, Append(loc, 1))]
    [] node.type \in {"semantic_and", "semantic_not"} ->
         [node EXCEPT !.location = loc, !.codeLocation = Append(loc, 0)]
    [] node.type = "sequence" ->
         [node EXCEPT !.location = loc,
                      !.elements = [i \in DOMAIN node.elements |->
                                      Locate(node.elements[i], Append(loc, i))]]
    [] node.type = "choice" ->
         [node EXCEPT !.location = loc,
                      !.alternatives = [i \in DOMAIN node.alternatives |->
                                      Locate(node.alternatives[i], Append(loc, i))]]
    [] OTHER -> [node EXCEPT !.location = loc]

\* The Grammar node the parser returns for a list of rules.  The optional
\* property match of a node (Expr.match) is kept in the table match of its
\* grammar under the location of the node: a node whose location is not in
\* the domain of the table has no match property.
Grammar(rules) ==
  [type |-> "grammar", code |-> FALSE, match |-> << >>,
   literals |-> Undefined, classes |-> Undefined, expectations |-> Undefined,
   functions |-> Undefined,
   rules |-> [i \in DOMAIN rules |-> Locate(rules[i], <<i>>)]]

(***************************************************************************)
(* The diagnostics session (lib/compiler/session.ts).                      *)
(***************************************************************************)
NoThrow == [kind |-> "none", message |-> << >>]
Throw(k, m) == [kind |-> k, message |-> m]

\* new Session(options): no problems, no stage, no first error.
NewSession ==
  [problems |-> << >>, stage |-> Null, firstError |-> Undefined, errors |-> 0,
   callbacks |-> << >>]

Problem(sev, message, location, notes) ==
  [severity |-> sev, message |-> message, location |-> location,
   notes |-> notes]

\* A Session.error that retains the latest error instead of the first.
SessionErrorLatest(s, message, location, notes) ==
  LET s1 == [s EXCEPT !.errors = @ + 1,
                      !.firstError =
                        <<[message |-> message, location |-> location,
                           notes |-> notes, stage |-> s.stage]>>]
  IN IF s1.stage = Null
       THEN [session |-> s1, thrown |-> Throw("Error", <<"Impossible">>)]
       ELSE [session |->
               [s1 EXCEPT !.problems =
                            Append(@, Problem("error", message, location, notes)),
                          !.callbacks = Append(@, [severity |-> "error", stage |-> s1.stage, message |-> message])],
             thrown |-> NoThrow]

\* Session.error: the result is the session after the call and whether the
\* call threw Error("Impossible").
SessionError(s, message, location, notes) ==
  LET s1 == [s EXCEPT !.errors = @ + 1]
      s2 == IF s1.firstError = Undefined
              THEN [s1 EXCEPT !.firstError =
                      <<[message |-> message, location |-> location,
                         notes |-> notes, stage |-> s1.stage]>>]
              ELSE s1
  IN IF s2.stage = Null
       THEN [session |-> s2, thrown |-> Throw("Error", <<"Impossible">>)]
       ELSE [session |->
               [s2 EXCEPT !.problems =
                            Append(@, Problem("error", message, location, notes)),
                          !.callbacks = Append(@, [severity |-> "error", stage |-> s2.stage, message |-> message])],
             thrown |-> NoThrow]

\* Session.warning
SessionWarning(s, message, location, notes) ==
  LET s1 == [s EXCEPT !.problems =
                        Append(@, Problem("warning", message, location, notes))]
  IN IF s1.stage = Null
       THEN [session |-> s1, thrown |-> Throw("Error", <<"Impossible">>)]
       ELSE [session |-> [s1 EXCEPT !.callbacks =
                                     Append(@, [severity |-> "warning", stage |-> s1.stage, message |-> message])],
             thrown |-> NoThrow]

\* Session.info
SessionInfo(s, message, location, notes) ==
  LET s1 == [s EXCEPT !.problems =
                        Append(@, Problem("info", message, location, notes))]
  IN IF s1.stage = Null
       THEN [session |-> s1, thrown |-> Throw("Error", <<"Impossible">>)]
       ELSE [session |-> [s1 EXCEPT !.callbacks =
                                     Append(@, [severity |-> "info", stage |-> s1.stage, message |-> message])],
             thrown |-> NoThrow]

\* A pass threads the record [session, thrown] through its traversal: once
\* thrown is set the exception unwinds and nothing more is done.
ReportError(st, message, location, notes) ==
  IF st.thrown # NoThrow THEN st
  ELSE LET r == SessionError(st.session, message, location, notes)
       IN [st EXCEPT !.session = r.session, !.thrown = r.thrown]

ReportInfo(st, message, location, notes) ==
  IF st.thrown # NoThrow THEN st
  ELSE LET r == SessionInfo(st.session, message, location, notes)
       IN [st EXCEPT !.session = r.session, !.thrown = r.thrown]

(***************************************************************************)
(* AST helpers (lib/compiler/asts.ts).                                     *)
(***************************************************************************)
\* indexOfRule: the first position of a rule named name, -1 if none (0-based
\* in the source, 1-based here, 0 for "not found").
indexOfRule(ast, name) ==
  IF \E i \in DOMAIN ast.rules : ast.rules[i].name = name
    THEN CHOOSE i \in DOMAIN ast.rules :
           /\ ast.rules[i].name = name
           /\ \A j \in DOMAIN ast.rules : ast.rules[j].name = name => i <= j
    ELSE 0

\* findRule: <<the first rule named name>>, Undefined if there is none.
findRule(ast, name) ==
  IF indexOfRule(ast, name) = 0 THEN Undefined
  ELSE <<ast.rules[indexOfRule(ast, name)]>>

\* alwaysConsumesOnSuccess.  The recursion through rule_ref has no guard: a
\* call that reaches a rule whose evaluation is already in progress (active)
\* repeats itself without end, and the engine ends it with RangeError
\* (Maximum call stack size exceeded).  The result is the value and the
\* exception thrown, if any; some() and every() stop at the first element
\* that decides them.
RangeError == Throw("RangeError", <<"Maximum call stack size exceeded">>)

RECURSIVE consumes(_, _, _), consumesSome(_, _, _, _), consumesEvery(_, _, _, _)
consumes(ast, node, active) ==
  CASE node.type \in {"grammar", "top_level_initializer", "initializer"} ->
         [value |-> FALSE, thrown |-> Throw("Error", <<"Impossible">>)]
    [] node.type = "choice" -> consumesEvery(ast, node.alternatives, 1, active)
    [] node.type = "sequence" -> consumesSome(ast, node.elements, 1, active)
    [] node.type \in {"simple_and", "simple_not", "optional", "zero_or_more",
                      "semantic_and", "semantic_not"} ->
         [value |-> FALSE, thrown |-> NoThrow]
    [] node.type = "rule_ref" ->
         LET rule == findRule(ast, node.name)
         IN IF rule = Undefined THEN [value |-> FALSE, thrown |-> NoThrow]
            ELSE IF node.name \in active
              THEN [value |-> FALSE, thrown |-> RangeError]
              ELSE consumes(ast, rule[1], active \cup {node.name})
    [] node.type = "literal" -> [value |-> node.value # "", thrown |-> NoThrow]
    [] node.type \in {"class", "any"} -> [value |-> TRUE, thrown |-> NoThrow]
    [] OTHER -> consumes(ast, node.expression, active)

\* A some() that calls the function for every element.
RECURSIVE consumesSomeEager(_, _, _, _)
consumesSomeEager(ast, elements, i, active) ==
  IF i > Len(elements) THEN [value |-> FALSE, thrown |-> NoThrow]
  ELSE LET r == consumes(ast, elements[i], active)
           rest == consumesSomeEager(ast, elements, i + 1, active)
       IN IF r.thrown # NoThrow THEN r
          ELSE IF rest.thrown # NoThrow THEN rest
          ELSE [value |-> r.value \/ rest.value, thrown |-> NoThrow]

consumesSome(ast, elements, i, active) ==
  IF i > Len(elements) THEN [value |-> FALSE, thrown |-> NoThrow]
  ELSE LET r == consumes(ast, elements[i], active)
       IN IF r.thrown # NoThrow \/ r.value THEN r
          ELSE consumesSome(ast, elements, i + 1, active)

\* A choice handler that asks for some alternative instead of every one.
consumesEveryAsSome(ast, alternatives, i, active) ==
  consumesSome(ast, alternatives, i, active)

consumesEvery(ast, alternatives, i, active) ==
  IF i > Len(alternatives) THEN [value |-> TRUE, thrown |-> NoThrow]
  ELSE LET r == consumes(ast, alternatives[i], active)
       IN IF r.thrown # NoThrow \/ ~r.value THEN r
          ELSE consumesEvery(ast, alternatives, i + 1, active)

alwaysConsumesOnSuccess(ast, node) == consumes(ast, node, {})

(***************************************************************************)
(* Pieces of messages.                                                     *)
(***************************************************************************)
Digits == <<"0", "1", "2", "3", "4", "5", "6", "7", "8", "9">>

\* The decimal digits of n >= 0, as `${n}` prints them.
RECURSIVE Decimal(_)
Decimal(n) ==
  IF n < 10 THEN <<Digits[n + 1]>>
  ELSE Decimal(n \div 10) \o <<Digits[(n % 10) + 1]>>

\* Array.prototype.join
RECURSIVE Join(_, _)
Join(xs, sep) ==
  IF xs = << >> THEN << >>
  ELSE IF Len(xs) = 1 THEN <<xs[1]>>
  ELSE <<xs[1], sep>> \o Join(Tail(xs), sep)

Pop(xs) == IF xs = << >> THEN xs ELSE SubSeq(xs, 1, Len(xs) - 1)

(***************************************************************************)
(* passes/report-undefined-rules.ts                                        *)
(***************************************************************************)
RECURSIVE undefinedRulesCheck(_, _, _), undefinedRulesCheckAll(_, _, _, _)
undefinedRulesCheck(ast, node, st) ==
  IF st.thrown # NoThrow THEN st
  ELSE CASE node.type = "grammar" -> undefinedRulesCheckAll(ast, node.rules, 1, st)
    [] node.type = "rule_ref" ->
         IF findRule(ast, node.name) = Undefined
           THEN ReportError(st, <<"Rule \"", node.name, "\" is not defined">>,
                            node.location, Undefined)
           ELSE st
    [] node.type = "choice" -> undefinedRulesCheckAll(ast, node.alternatives, 1, st)
    [] node.type = "sequence" -> undefinedRulesCheckAll(ast, node.elements, 1, st)
    [] node.type \in WrapperTypes \cup {"rule"} ->
         undefinedRulesCheck(ast, node.expression, st)
    [] OTHER -> st

undefinedRulesCheckAll(ast, nodes, i, st) ==
  IF i > Len(nodes) THEN st
  ELSE undefinedRulesCheckAll(ast, nodes, i + 1,
                              undefinedRulesCheck(ast, nodes[i], st))

reportUndefinedRules(ast, session) ==
  undefinedRulesCheck(ast, ast, [session |-> session, thrown |-> NoThrow])

(***************************************************************************)
(* passes/report-duplicate-rules.ts                                        *)
(***************************************************************************)
\* The rule handler; st.rules is the record of the names seen (name -> span).
\* A handler that records the location of every rule it meets, the repeated
\* ones included.
duplicateRulesRuleLatest(node, st) ==
  IF node.name \in DOMAIN st.rules
    THEN [ReportError(st, <<"Rule \"", node.name, "\" is already defined">>,
                      node.nameLocation,
                      <<[message |-> <<"Original rule location">>,
                         location |-> st.rules[node.name]]>>)
            EXCEPT !.rules = [@ EXCEPT ![node.name] = node.nameLocation]]
    ELSE [st EXCEPT !.rules = (node.name :> node.nameLocation) @@ @]

\* The rule handler.
duplicateRulesRule(node, st) ==
  IF node.name \in DOMAIN st.rules
    THEN ReportError(st, <<"Rule \"", node.name, "\" is already defined">>,
                     node.nameLocation,
                     <<[message |-> <<"Original rule location">>,
                        location |-> st.rules[node.name]]>>)
    ELSE [st EXCEPT !.rules = (node.name :> node.nameLocation) @@ @]

RECURSIVE duplicateRulesCheckAll(_, _, _)
duplicateRulesCheckAll(rules, i, st) ==
  IF i > Len(rules) \/ st.thrown # NoThrow THEN st
  ELSE duplicateRulesCheckAll(rules, i + 1, duplicateRulesRule(rules[i], st))

reportDuplicateRules(ast, session) ==
  LET st == duplicateRulesCheckAll(ast.rules, 1,
              [session |-> session, thrown |-> NoThrow, rules |-> << >>])
  IN [session |-> st.session, thrown |-> st.thrown]

(***************************************************************************)
(* passes/report-duplicate-labels.ts                                       *)
(*                                                                         *)
(* st.env is the object the handler was given as env: a handler that       *)
(* passes a clone ({...env}) restores it afterwards, one that passes env   *)
(* itself keeps what the callee wrote into it.                             *)
(***************************************************************************)
RECURSIVE duplicateLabelsCheck(_, _), duplicateLabelsCheckAll(_, _, _),
          duplicateLabelsCheckAlternatives(_, _, _)
duplicateLabelsLabeled(node, st) ==
  LET st1 == IF node.label # Null /\ node.label # "" /\ node.label \in DOMAIN st.env
               THEN ReportError(st,
                      <<"Label \"", node.label, "\" is already defined">>,
                      node.labelLocation,
                      <<[message |-> <<"Original label location">>,
                         location |-> st.env[node.label]]>>)
               ELSE st
      st2 == duplicateLabelsCheck(node.expression, st1)
  IN IF st2.thrown # NoThrow THEN st2
     ELSE IF node.label # Null /\ node.label # ""
       THEN [st2 EXCEPT !.env = (node.label :> node.labelLocation) @@ @]
       ELSE st2

\* A handler that hands its own env to the operand instead of a clone.
duplicateLabelsShared(node, st) == duplicateLabelsCheck(node.expression, st)

\* checkExpressionWithClonedEnv
duplicateLabelsCloned(node, st) ==
  [duplicateLabelsCheck(node.expression, st) EXCEPT !.env = st.env]

duplicateLabelsCheck(node, st) ==
  IF st.thrown # NoThrow THEN st
  ELSE CASE node.type = "grammar" -> duplicateLabelsCheckAll(node.rules, 1, st)
    [] node.type = "rule" ->
         [duplicateLabelsCheck(node.expression, [st EXCEPT !.env = << >>])
            EXCEPT !.env = st.env]
    [] node.type = "choice" ->
         duplicateLabelsCheckAlternatives(node.alternatives, 1, st)
    [] node.type = "labeled" -> duplicateLabelsLabeled(node, st)
    [] node.type \in {"action", "text", "simple_and", "simple_not", "optional",
                      "zero_or_more", "one_or_more", "group"} ->
         duplicateLabelsCloned(node, st)
    [] node.type = "sequence" -> duplicateLabelsCheckAll(node.elements, 1, st)
    [] node.type = "named" -> duplicateLabelsCheck(node.expression, st)
    [] OTHER -> st

duplicateLabelsCheckAll(nodes, i, st) ==
  IF i > Len(nodes) THEN st
  ELSE duplicateLabelsCheckAll(nodes, i + 1, duplicateLabelsCheck(nodes[i], st))

duplicateLabelsCheckAlternatives(alternatives, i, st) ==
  IF i > Len(alternatives) THEN st
  ELSE duplicateLabelsCheckAlternatives(alternatives, i + 1,
         [duplicateLabelsCheck(alternatives[i], st) EXCEPT !.env = st.env])

reportDuplicateLabels(ast, session) ==
  LET st == duplicateLabelsCheck(ast,
              [session |-> session, thrown |-> NoThrow, env |-> << >>])
  IN [session |-> st.session, thrown |-> st.thrown]

(***************************************************************************)
(* passes/report-incorrect-plucking.ts                                     *)
(***************************************************************************)
RECURSIVE incorrectPluckingCheck(_, _, _), incorrectPluckingCheckAll(_, _, _, _)
\* A labeled handler that keeps the enclosing action for its operand.
incorrectPluckingLabeledKeep(node, action, st) ==
  incorrectPluckingCheck(node.expression, action,
    IF node.pick /\ action # Undefined
      THEN ReportError(st, <<"\"@\" cannot be used with an action block">>,
             node.labelLocation,
             <<[message |-> <<"Action block location">>,
                location |-> action[1].codeLocation]>>)
      ELSE st)

\* The labeled handler.
incorrectPluckingLabeled(node, action, st) ==
  incorrectPluckingCheck(node.expression, Undefined,
    IF node.pick /\ action # Undefined
      THEN ReportError(st, <<"\"@\" cannot be used with an action block">>,
             node.labelLocation,
             <<[message |-> <<"Action block location">>,
                location |-> action[1].codeLocation]>>)
      ELSE st)

incorrectPluckingCheck(node, action, st) ==
  IF st.thrown # NoThrow THEN st
  ELSE CASE node.type = "grammar" ->
         incorrectPluckingCheckAll(node.rules, 1, action, st)
    [] node.type = "action" -> incorrectPluckingCheck(node.expression, <<node>>, st)
    [] node.type = "labeled" -> incorrectPluckingLabeled(node, action, st)
    [] node.type = "choice" ->
         incorrectPluckingCheckAll(node.alternatives, 1, action, st)
    [] node.type = "sequence" ->
         incorrectPluckingCheckAll(node.elements, 1, action, st)
    [] node.type \in WrapperTypes \cup {"rule"} ->
         incorrectPluckingCheck(node.expression, action, st)
    [] OTHER -> st

incorrectPluckingCheckAll(nodes, i, action, st) ==
  IF i > Len(nodes) THEN st
  ELSE incorrectPluckingCheckAll(nodes, i + 1, action,
         incorrectPluckingCheck(nodes[i], action, st))

reportIncorrectPlucking(ast, session) ==
  incorrectPluckingCheck(ast, Undefined,
                         [session |-> session, thrown |-> NoThrow])

(***************************************************************************)
(* passes/report-infinite-recursion.ts                                     *)
(*                                                                         *)
(* st.visitedRules and st.backtraceRefs are the two arrays of the pass.    *)
(***************************************************************************)
\* The notes of a left recursion error, one per entry of backtraceRefs.
infiniteRecursionNotes(refs) ==
  [i \in DOMAIN refs |->
     [message |->
        IF i # Len(refs)
          THEN <<"Step ">> \o Decimal(i) \o
               <<": call of the rule \"", refs[i].name,
                 "\" without input consumption">>
          ELSE <<"Step ">> \o Decimal(i) \o
               <<": call itself without input consumption - left recursion">>,
      location |-> refs[i].location]]

RECURSIVE infiniteRecursionCheck(_, _, _), infiniteRecursionCheckAll(_, _, _, _),
          infiniteRecursionSequence(_, _, _, _)
infiniteRecursionRuleRef(ast, node, st) ==
  LET st1 == [st EXCEPT !.backtraceRefs = Append(@, node)]
      rule == findRule(ast, node.name)
  IN IF rule = Undefined
       THEN [st1 EXCEPT !.thrown =
               Throw("Error", <<"Could not find rule ", node.name,
                                " while looking for infinite recursive parsers">>)]
     ELSE IF \E i \in DOMAIN st1.visitedRules : st1.visitedRules[i] = node.name
       THEN LET st2 == [st1 EXCEPT !.visitedRules = Append(@, node.name)]
            IN ReportError(st2,
                 <<"Possible infinite loop when parsing (left recursion: ">>
                   \o Join(st2.visitedRules, " -> ") \o <<")">>,
                 rule[1].nameLocation,
                 infiniteRecursionNotes(st2.backtraceRefs))
     ELSE LET st3 == infiniteRecursionCheck(ast, rule[1], st1)
          IN IF st3.thrown # NoThrow THEN st3
             ELSE [st3 EXCEPT !.backtraceRefs = Pop(@)]

infiniteRecursionCheck(ast, node, st) ==
  IF st.thrown # NoThrow THEN st
  ELSE CASE node.type = "grammar" -> infiniteRecursionCheckAll(ast, node.rules, 1, st)
    [] node.type = "rule" ->
         LET st1 == infiniteRecursionCheck(ast, node.expression,
                      [st EXCEPT !.visitedRules = Append(@, node.name)])
         IN IF st1.thrown # NoThrow THEN st1
            ELSE [st1 EXCEPT !.visitedRules = Pop(@)]
    [] node.type = "sequence" -> infiniteRecursionSequence(ast, node.elements, 1, st)
    [] node.type = "rule_ref" -> infiniteRecursionRuleRef(ast, node, st)
    [] node.type = "choice" ->
         infiniteRecursionCheckAll(ast, node.alternatives, 1, st)
    [] node.type \in WrapperTypes ->
         infiniteRecursionCheck(ast, node.expression, st)
    [] OTHER -> st

infiniteRecursionCheckAll(ast, nodes, i, st) ==
  IF i > Len(nodes) THEN st
  ELSE infiniteRecursionCheckAll(ast, nodes, i + 1,
         infiniteRecursionCheck(ast, nodes[i], st))

\* The sequence handler: check the element, then leave the loop if the
\* element always consumes on success.
infiniteRecursionSequence(ast, elements, i, st) ==
  IF i > Len(elements) THEN st
  ELSE LET st1 == infiniteRecursionCheck(ast, elements[i], st)
       IN IF st1.thrown # NoThrow THEN st1
          ELSE LET c == alwaysConsumesOnSuccess(ast, elements[i])
               IN IF c.thrown # NoThrow THEN [st1 EXCEPT !.thrown = c.thrown]
                  ELSE IF c.value THEN st1
                  ELSE infiniteRecursionSequence(ast, elements, i + 1, st1)

\* The whole pass; its result keeps the two arrays as the pass left them.
infiniteRecursionRun(ast, session) ==
  infiniteRecursionCheck(ast, ast,
    [session |-> session, thrown |-> NoThrow, visitedRules |-> << >>,
     backtraceRefs |-> << >>])

reportInfiniteRecursion(ast, session) ==
  LET st == infiniteRecursionRun(ast, session)
  IN [session |-> st.session, thrown |-> st.thrown]

(***************************************************************************)
(* passes/report-infinite-repetition (the .js file and the .ts file hold   *)
(* the same function).                                                     *)
(***************************************************************************)
\* The zero_or_more and one_or_more handlers: they do not visit the operand.
infiniteRepetitionHandler(ast, node, st) ==
  LET c == alwaysConsumesOnSuccess(ast, node.expression)
  IN IF c.thrown # NoThrow THEN [st EXCEPT !.thrown = c.thrown]
     ELSE IF ~c.value
       THEN ReportError(st,
              <<"Possible infinite loop when parsing (repetition used with an expression that may not consume any input)">>,
              node.location, Undefined)
       ELSE st

RECURSIVE infiniteRepetitionCheck(_, _, _), infiniteRepetitionCheckAll(_, _, _, _)
infiniteRepetitionCheck(ast, node, st) ==
  IF st.thrown # NoThrow THEN st
  ELSE CASE node.type = "grammar" -> infiniteRepetitionCheckAll(ast, node.rules, 1, st)
    [] node.type \in {"zero_or_more", "one_or_more"} ->
         infiniteRepetitionHandler(ast, node, st)
    [] node.type = "choice" ->
         infiniteRepetitionCheckAll(ast, node.alternatives, 1, st)
    [] node.type = "sequence" ->
         infiniteRepetitionCheckAll(ast, node.elements, 1, st)
    [] node.type \in WrapperTypes \cup {"rule"} ->
         infiniteRepetitionCheck(ast, node.expression, st)
    [] OTHER -> st

infiniteRepetitionCheckAll(ast, nodes, i, st) ==
  IF i > Len(nodes) THEN st
  ELSE infiniteRepetitionCheckAll(ast, nodes, i + 1,
         infiniteRepetitionCheck(ast, nodes[i], st))

reportInfiniteRepetition(ast, session) ==
  infiniteRepetitionCheck(ast, ast, [session |-> session, thrown |-> NoThrow])

(***************************************************************************)
(* passes/remove-proxy-rules.ts                                            *)
(***************************************************************************)
\* replaceRuleRefs: the visitor rewrites node.name in place; the result is
\* the node after the visit and the state of the pass.
RECURSIVE replaceNode(_, _, _, _, _), replaceAll(_, _, _, _, _, _)
replaceNode(ast, node, from, to, st) ==
  IF st.thrown # NoThrow THEN [node |-> node, st |-> st]
  ELSE CASE node.type = "rule_ref" ->
         IF node.name # from THEN [node |-> node, st |-> st]
         ELSE LET rule == findRule(ast, to)
              IN IF rule = Undefined
                   THEN [node |-> [node EXCEPT !.name = to],
                         st |-> [st EXCEPT !.thrown =
                                   Throw("Error", <<"Rule ", to,
                                     " was not found during proxy removal">>)]]
                   ELSE [node |-> [node EXCEPT !.name = to],
                         st |-> ReportInfo(st,
                                  <<"Proxy rule \"", from,
                                    "\" replaced by the rule \"", to, "\"">>,
                                  node.location,
                                  <<[message |-> <<"This rule will be used">>,
                                     location |-> rule[1].nameLocation]>>)]
    [] node.type = "grammar" ->
         LET r == replaceAll(ast, node.rules, 1, from, to, st)
         IN [node |-> [node EXCEPT !.rules = r.nodes], st |-> r.st]
    [] node.type = "choice" ->
         LET r == replaceAll(ast, node.alternatives, 1, from, to, st)
         IN [node |-> [node EXCEPT !.alternatives = r.nodes], st |-> r.st]
    [] node.type = "sequence" ->
         LET r == replaceAll(ast, node.elements, 1, from, to, st)
         IN [node |-> [node EXCEPT !.elements = r.nodes], st |-> r.st]
    [] node.type \in WrapperTypes \cup {"rule"} ->
         LET r == replaceNode(ast, node.expression, from, to, st)
         IN [node |-> [node EXCEPT !.expression = r.node], st |-> r.st]
    [] OTHER -> [node |-> node, st |-> st]

replaceAll(ast, nodes, i, from, to, st) ==
  IF i > Len(nodes) THEN [nodes |-> nodes, st |-> st]
  ELSE LET r == replaceNode(ast, nodes[i], from, to, st)
       IN replaceAll(ast, [nodes EXCEPT ![i] = r.node], i + 1, from, to, r.st)

\* A replaceRuleRefs that leaves every reference as it is.
keepRuleRefs(ast, from, to, st) == [ast |-> ast, st |-> st]

replaceRuleRefs(ast, from, to, st) ==
  LET r == replaceNode(ast, ast, from, to, st)
  IN [ast |-> r.node, st |-> r.st]

\* ast.rules.forEach(...): w is [ast, st, indices] (indices are 1-based).
RECURSIVE removeProxyRulesForEach(_, _, _)
removeProxyRulesForEach(w, i, allowedStartRules) ==
  IF i > Len(w.ast.rules) \/ w.st.thrown # NoThrow THEN w
  ELSE LET rule == w.ast.rules[i]
       IN IF rule.type = "rule" /\ rule.expression.type = "rule_ref"
            THEN LET r == replaceRuleRefs(w.ast, rule.name, rule.expression.name, w.st)
                 IN removeProxyRulesForEach(
                      [ast |-> r.ast, st |-> r.st,
                       indices |->
                         IF r.st.thrown = NoThrow
                            /\ ~\E k \in DOMAIN allowedStartRules :
                                  allowedStartRules[k] = rule.name
                           THEN Append(w.indices, i)
                           ELSE w.indices],
                      i + 1, allowedStartRules)
            ELSE removeProxyRulesForEach(w, i + 1, allowedStartRules)

\* Array.prototype.splice(i, 1)
Splice(xs, i) == SubSeq(xs, 1, i - 1) \o SubSeq(xs, i + 1, Len(xs))

\* A removal that takes the indices in ascending order.
RECURSIVE spliceAllForward(_, _)
spliceAllForward(rules, indices) ==
  IF indices = << >> THEN rules
  ELSE spliceAllForward(Splice(rules, indices[1]), Tail(indices))

\* for (const i of indices.reverse()) ast.rules.splice(i, 1)
RECURSIVE spliceAll(_, _)
spliceAll(rules, indices) ==
  IF indices = << >> THEN rules
  ELSE spliceAll(Splice(rules, indices[Len(indices)]), Pop(indices))

\* The result is the grammar after the pass, the session and the exception.
removeProxyRules(ast, allowedStartRules, session) ==
  LET w == removeProxyRulesForEach(
             [ast |-> ast, st |-> [session |-> session, thrown |-> NoThrow],
              indices |-> << >>], 1, allowedStartRules)
  IN [ast |-> IF w.st.thrown # NoThrow THEN w.ast
              ELSE [w.ast EXCEPT !.rules = spliceAll(@, w.indices)],
      session |-> w.st.session, thrown |-> w.st.thrown]

(***************************************************************************)
(* The transform and generate passes that write annotations of the AST.    *)
(***************************************************************************)
\* MatchResult (lib/parser.d.ts).
ALWAYS == 1
SOMETIMES == 0
NEVER == -1

\* node.match = v, on the table m.
SetMatch(m, node, v) == (node.location :> v) @@ m

\* The largest count the test ++count > 6 of the rule handler accepts.
MaxInferenceCount == 6

\* passes/inference-match-result.  The state st of a run is the table of the
\* match properties (m), the exception thrown (thrown) and the largest count
\* a fixed-point loop of the rule handler has reached (iterations).  Every
\* handler returns [value, st].
RECURSIVE inference(_, _, _), inferenceCount(_, _, _, _), inferenceRuleLoop(_, _, _, _)

\* The for loop of inferenceElements: how many elements from the i-th on
\* give ALWAYS and how many NEVER, added to acc.
inferenceCount(ast, elements, i, acc) ==
  IF i > Len(elements) \/ acc.st.thrown # NoThrow THEN acc
  ELSE LET r == inference(ast, elements[i], acc.st)
       IN inferenceCount(ast, elements, i + 1,
            [always |-> acc.always + (IF r.value = ALWAYS THEN 1 ELSE 0),
             never |-> acc.never + (IF r.value = NEVER THEN 1 ELSE 0),
             st |-> r.st])

inferenceElements(ast, elements, forChoice, st) ==
  LET length == Len(elements)
      acc == inferenceCount(ast, elements, 1, [always |-> 0, never |-> 0, st |-> st])
  IN [value |-> IF acc.always = length THEN ALWAYS
                ELSE IF forChoice
                  THEN (IF acc.never = length THEN NEVER ELSE SOMETIMES)
                  ELSE (IF acc.never > 0 THEN NEVER ELSE SOMETIMES),
      st |-> acc.st]

\* A result that follows the given one in the cycle 0, 1, -1.
inferenceRotate(value) ==
  IF value = SOMETIMES THEN ALWAYS ELSE IF value = ALWAYS THEN NEVER ELSE SOMETIMES

\* What simple_not makes of the result of its operand.
inferenceNegate(value) == 0 - value

\* The do ... while loop of the rule handler, entered with the given count.
inferenceRuleLoop(ast, node, count, st) ==
  LET oldResult == st.m[node.location]
      r == inference(ast, node.expression, st)
      st1 == [r.st EXCEPT !.m = SetMatch(@, node, r.value),
                          !.iterations = IF count + 1 > @ THEN count + 1 ELSE @]
  IN IF r.st.thrown # NoThrow THEN r
     ELSE IF count + 1 > MaxInferenceCount
       THEN [value |-> r.value,
             st |-> [st1 EXCEPT !.thrown =
                       Throw("GrammarError",
                         <<"Infinity cycle detected when trying to evaluate node match result">>)]]
     ELSE IF oldResult # r.value
       THEN inferenceRuleLoop(ast, node, count + 1, st1)
       ELSE [value |-> r.value, st |-> st1]

\* The rule handler.
inferenceRule(ast, node, st) ==
  IF node.location \in DOMAIN st.m
    THEN [value |-> st.m[node.location], st |-> st]
    ELSE inferenceRuleLoop(ast, node, 0,
           [st EXCEPT !.m = SetMatch(@, node, SOMETIMES)])

\* node.match = value of r, for the handlers that store what they computed.
inferenceStore(node, r) ==
  IF r.st.thrown # NoThrow THEN r
  ELSE [value |-> r.value, st |-> [r.st EXCEPT !.m = SetMatch(@, node, r.value)]]

inference(ast, node, st) ==
  IF st.thrown # NoThrow THEN [value |-> NEVER, st |-> st]
  ELSE CASE node.type \in {"grammar", "initializer", "top_level_initializer"} ->
         [value |-> NEVER, st |-> st]
    [] node.type = "rule" -> inferenceRule(ast, node, st)
    [] node.type \in {"named", "action", "labeled", "text", "simple_and",
                      "one_or_more", "group"} ->
         inferenceStore(node, inference(ast, node.expression, st))
    [] node.type = "choice" ->
         inferenceStore(node, inferenceElements(ast, node.alternatives, TRUE, st))
    [] node.type = "sequence" ->
         inferenceStore(node, inferenceElements(ast, node.elements, FALSE, st))
    [] node.type = "simple_not" ->
         LET r == inference(ast, node.expression, st)
         IN inferenceStore(node, [r EXCEPT !.value = inferenceNegate(@)])
    [] node.type \in {"optional", "zero_or_more"} ->
         LET r == inference(ast, node.expression, st)
         IN inferenceStore(node, [r EXCEPT !.value = ALWAYS])
    [] node.type \in {"semantic_and", "semantic_not", "any"} ->
         inferenceStore(node, [value |-> SOMETIMES, st |-> st])
    [] node.type = "rule_ref" ->
         LET rule == findRule(ast, node.name)
         IN IF rule # Undefined
              THEN inferenceStore(node, inference(ast, rule[1], st))
              ELSE [value |-> SOMETIMES, st |-> st]
    [] node.type = "literal" ->
         inferenceStore(node,
           [value |-> IF node.value = "" THEN ALWAYS ELSE SOMETIMES, st |-> st])
    [] node.type = "class" ->
         inferenceStore(node,
           [value |-> IF Len(node.parts) = 0 THEN NEVER ELSE SOMETIMES, st |-> st])

\* A run of the visitor on node, from the match properties the grammar has.
inferenceRun(ast, node) ==
  inference(ast, node, [m |-> ast.match, thrown |-> NoThrow, iterations |-> 0])

\* The pass: inference(ast), with the Grammar node as argument.
inferenceMatchResult(ast, session) ==
  LET r == inferenceRun(ast, ast)
  IN [ast |-> [ast EXCEPT !.match = r.st.m], session |-> session,
      thrown |-> r.st.thrown]

(***************************************************************************)
(* passes/generate-bytecode.  Opcodes (the numbers of the instruction      *)
(* list in the header of the pass).                                        *)
(***************************************************************************)
op_PUSH_EMPTY_STRING == 35
op_PUSH_UNDEFINED == 1
op_PUSH_NULL == 2
op_PUSH_FAILED == 3
op_PUSH_EMPTY_ARRAY == 4
op_PUSH_CURR_POS == 5
op_POP == 6
op_POP_CURR_POS == 7
op_POP_N == 8
op_NIP == 9
op_APPEND == 10
op_WRAP == 11
op_TEXT == 12
op_PLUCK == 36
op_IF == 13
op_IF_ERROR == 14
op_IF_NOT_ERROR == 15
op_WHILE_NOT_ERROR == 16
op_MATCH_ANY == 17
op_MATCH_STRING == 18
op_MATCH_STRING_IC == 19
op_MATCH_CHAR_CLASS == 20
op_ACCEPT_N == 21
op_ACCEPT_STRING == 22
op_FAIL == 23
op_LOAD_SAVED_POS == 24
op_UPDATE_SAVED_POS == 25
op_CALL == 26
op_RULE == 27
op_SILENT_FAILS_ON == 28
op_SILENT_FAILS_OFF == 29

\* The element of a bytecode array that is null (no number of the
\* bytecode is below zero otherwise, except the -1 of indexOfRule).
NullOperand == 0 - 2

(***************************************************************************)
(* The constant pools.  JSON.stringify of an entry is the sequence of the  *)
(* pieces of its text: the keys in the order of the object literal, each   *)
(* followed by its value.                                                  *)
(***************************************************************************)
StringifyBoolean(b) == IF b THEN "true" ELSE "false"
StringifyArray(xs) == <<"[">> \o Join(xs, ",") \o <<"]">>

RECURSIVE StringifyLocation(_)
StringifyLocation(loc) ==
  IF loc = << >> THEN << >>
  ELSE Decimal(loc[1]) \o <<":">> \o StringifyLocation(Tail(loc))

\* JSON.stringify of a CharClassDesc, an ExpectedConst or a FunctionDesc.
StringifyClassDesc(c) ==
  <<"value">> \o StringifyArray(c.value)
    \o <<"inverted", StringifyBoolean(c.inverted),
         "ignoreCase", StringifyBoolean(c.ignoreCase)>>

StringifyExpected(e) ==
  CASE e.type = "rule" -> <<"type", "rule", "value", e.value>>
    [] e.type = "literal" ->
         <<"type", "literal", "value", e.value,
           "ignoreCase", StringifyBoolean(e.ignoreCase)>>
    [] e.type = "class" ->
         <<"type", "class", "value">> \o StringifyArray(e.value)
           \o <<"inverted", StringifyBoolean(e.inverted),
                "ignoreCase", StringifyBoolean(e.ignoreCase)>>
    [] e.type = "any" -> <<"type", "any">>

StringifyFunction(f) ==
  <<"predicate", StringifyBoolean(f.predicate), "params">>
    \o StringifyArray(f.params)
    \o <<"body", f.body, "location">> \o StringifyLocation(f.location)

\* Array.prototype.indexOf / findIndex on the encodings: the 0-based index
\* of the first entry with the given encoding, -1 if there is none.
FindIndex(encodings, pattern) ==
  IF \E i \in DOMAIN encodings : encodings[i] = pattern
    THEN (CHOOSE i \in DOMAIN encodings :
            /\ encodings[i] = pattern
            /\ \A j \in DOMAIN encodings : encodings[j] = pattern => i <= j) - 1
    ELSE 0 - 1

\* An interning that appends the entry whether it is in the pool or not.
InternAlways(pool, entry, index) ==
  [index |-> Len(pool), pool |-> Append(pool, entry)]

\* index === -1 ? pool.push(entry) - 1 : index, with the pool it leaves.
Intern(pool, entry, index) ==
  IF index = 0 - 1
    THEN [index |-> Len(pool), pool |-> Append(pool, entry)]
    ELSE [index |-> index, pool |-> pool]

addLiteralConst(literals, value) ==
  Intern(literals, value,
         FindIndex([i \in DOMAIN literals |-> <<literals[i]>>], <<value>>))

addClassConst(classes, node) ==
  LET cls == [value |-> node.parts, inverted |-> node.inverted,
              ignoreCase |-> node.ignoreCase]
  IN Intern(classes, cls,
            FindIndex([i \in DOMAIN classes |-> StringifyClassDesc(classes[i])],
                      StringifyClassDesc(cls)))

addExpectedConst(expectations, expected) ==
  Intern(expectations, expected,
         FindIndex([i \in DOMAIN expectations |-> StringifyExpected(expectations[i])],
                   StringifyExpected(expected)))

addFunctionConst(functions, predicate, params, node) ==
  LET func == [predicate |-> predicate, params |-> params, body |-> node.code,
               location |-> node.codeLocation]
  IN Intern(functions, func,
            FindIndex([i \in DOMAIN functions |-> StringifyFunction(functions[i])],
                      StringifyFunction(func)))

(***************************************************************************)
(* The code builders and the generate visitor.                             *)
(*                                                                         *)
(* A context is [sp, env, hasPluck, pluck, action]: env is the list of the *)
(* labels in the order Object.keys gives them, each with its stack         *)
(* position; hasPluck tells whether the context object has a pluck array;  *)
(* action is Undefined (null) or <<the Action node>>.  The state st of a   *)
(* run holds the four pools and the exception thrown.  A handler returns   *)
(* [code, st, env, pluck]: env and pluck are what the env object and the   *)
(* pluck array of the context it was given hold when it returns (a handler *)
(* that hands its operand a clone returns them as it got them).            *)
(***************************************************************************)
Ctx(sp, env, hasPluck, pluck, action) ==
  [sp |-> sp, env |-> env, hasPluck |-> hasPluck, pluck |-> pluck,
   action |-> action]

\* Object.keys(env)
Keys(env) == [i \in DOMAIN env |-> env[i].name]

\* env[label] = sp
EnvSet(env, label, sp) ==
  IF \E i \in DOMAIN env : env[i].name = label
    THEN [i \in DOMAIN env |->
            IF env[i].name = label THEN [name |-> label, sp |-> sp] ELSE env[i]]
    ELSE Append(env, [name |-> label, sp |-> sp])

\* node.match || MatchResult.SOMETIMES
MatchTag(ast, node) ==
  IF node.location \in DOMAIN ast.match THEN ast.match[node.location]
  ELSE SOMETIMES

\* String.prototype.toLowerCase and String.prototype.length on the strings
\* of the model.
toLowerCase(v) ==
  CASE v = "A" -> "a" [] v = "AB" -> "ab" [] OTHER -> v
StringLength(v) ==
  CASE v = "" -> 0 [] v \in {"ab", "AB"} -> 2 [] OTHER -> 1

\* A buildCondition that encodes the length of the else code one too large.
buildConditionLong(match, condCode, thenCode, elseCode) ==
  IF match = ALWAYS THEN thenCode
  ELSE IF match = NEVER THEN elseCode
  ELSE condCode \o <<Len(thenCode), Len(elseCode) + 1>> \o thenCode \o elseCode

buildCondition(match, condCode, thenCode, elseCode) ==
  IF match = ALWAYS THEN thenCode
  ELSE IF match = NEVER THEN elseCode
  ELSE condCode \o <<Len(thenCode), Len(elseCode)>> \o thenCode \o elseCode

buildLoop(condCode, bodyCode) == condCode \o <<Len(bodyCode)>> \o bodyCode

\* A buildCall that counts the offsets from the slot above the top.
buildCallShifted(functionIndex, delta, env, sp) ==
  <<op_CALL, functionIndex, delta, Len(env)>>
    \o [i \in DOMAIN env |-> sp - env[i].sp + 1]

buildCall(functionIndex, delta, env, sp) ==
  <<op_CALL, functionIndex, delta, Len(env)>>
    \o [i \in DOMAIN env |-> sp - env[i].sp]

buildAppendLoop(expressionCode) ==
  buildLoop(<<op_WHILE_NOT_ERROR>>, <<op_APPEND>> \o expressionCode)

RECURSIVE generate(_, _, _, _), buildAlternativesCode(_, _, _, _, _),
          buildElementsCode(_, _, _, _, _)

\* A context for an operand that gets a clone of env and no pluck array.
Cloned(context, sp) == Ctx(sp, context.env, FALSE, << >>, Undefined)

\* What a handler that cloned env returns.
Result(code, st, context) ==
  [code |-> code, st |-> st, env |-> context.env, pluck |-> context.pluck]

Impossible(st, context) ==
  Result(<< >>, [st EXCEPT !.thrown = Throw("Error", <<"Impossible">>)], context)

generateNamed(ast, node, context, st) ==
  LET match == MatchTag(ast, node)
      nameIndex == IF match = NEVER
                     THEN [index |-> NullOperand, pool |-> st.expectations]
                     ELSE addExpectedConst(st.expectations,
                            [type |-> "rule", value |-> node.name])
      r == generate(ast, node.expression, context,
                    [st EXCEPT !.expectations = nameIndex.pool])
  IN [r EXCEPT !.code =
        <<op_SILENT_FAILS_ON>> \o r.code \o <<op_SILENT_FAILS_OFF>>
          \o buildCondition(match, <<op_IF_ERROR>>,
                            <<op_FAIL, nameIndex.index>>, << >>)]

\* A buildAlternativesCode that stops at an alternative that never fails
\* only when it is the last one.
buildAlternativesAll(ast, alternatives, i, context, st) ==
  LET first == generate(ast, alternatives[i], Cloned(context, context.sp), st)
  IN IF first.st.thrown # NoThrow \/ i >= Len(alternatives)
       THEN [code |-> first.code, st |-> first.st]
       ELSE LET rest == buildAlternativesCode(ast, alternatives, i + 1, context,
                                              first.st)
            IN [code |-> first.code
                           \o buildCondition(SOMETIMES, <<op_IF_ERROR>>,
                                             <<op_POP>> \o rest.code, << >>),
                st |-> rest.st]

\* buildAlternativesCode(alternatives.slice(i - 1), context): [code, st].
buildAlternativesCode(ast, alternatives, i, context, st) ==
  LET match == MatchTag(ast, alternatives[i])
      first == generate(ast, alternatives[i], Cloned(context, context.sp), st)
  IN IF match = ALWAYS \/ first.st.thrown # NoThrow
       THEN [code |-> first.code, st |-> first.st]
     ELSE IF i < Len(alternatives)
       THEN LET rest == buildAlternativesCode(ast, alternatives, i + 1, context,
                                              first.st)
            IN [code |-> first.code
                           \o buildCondition(SOMETIMES, <<op_IF_ERROR>>,
                                             <<op_POP>> \o rest.code, << >>),
                st |-> rest.st]
       ELSE [code |-> first.code, st |-> first.st]

generateChoice(ast, node, context, st) ==
  LET r == buildAlternativesCode(ast, node.alternatives, 1, context, st)
  IN Result(r.code, r.st, context)

generateAction(ast, node, context, st) ==
  LET emitCall == \/ node.expression.type # "sequence"
                  \/ Len(node.expression.elements) = 0
      r == generate(ast, node.expression,
                    Ctx(context.sp + (IF emitCall THEN 1 ELSE 0), context.env,
                        FALSE, << >>, <<node>>), st)
      env == r.env
      match == MatchTag(ast, node.expression)
      functionIndex == IF emitCall /\ match # NEVER
                         THEN addFunctionConst(r.st.functions, FALSE, Keys(env), node)
                         ELSE [index |-> NullOperand, pool |-> r.st.functions]
  IN IF r.st.thrown # NoThrow THEN Result(<< >>, r.st, context)
     ELSE Result(
       IF emitCall
         THEN <<op_PUSH_CURR_POS>> \o r.code
                \o buildCondition(match, <<op_IF_NOT_ERROR>>,
                     <<op_LOAD_SAVED_POS, 1>>
                       \o buildCall(functionIndex.index, 1, env, context.sp + 2),
                     << >>)
                \o <<op_NIP>>
         ELSE r.code,
       [r.st EXCEPT !.functions = functionIndex.pool], context)

\* buildElementsCode(node.elements.slice(i - 1), context): [code, st, env].
buildElementsCode(ast, node, i, context, st) ==
  IF st.thrown # NoThrow THEN [code |-> << >>, st |-> st, env |-> context.env]
  ELSE IF i <= Len(node.elements)
    THEN LET processedCount == i
             r == generate(ast, node.elements[i],
                           Ctx(context.sp, context.env, context.hasPluck,
                               context.pluck, Undefined), st)
             rest == buildElementsCode(ast, node, i + 1,
                       Ctx(context.sp + 1, r.env, context.hasPluck, r.pluck,
                           context.action), r.st)
         IN [code |-> r.code
                       \o buildCondition(MatchTag(ast, node.elements[i]),
                            <<op_IF_NOT_ERROR>>, rest.code,
                            (IF processedCount > 1
                               THEN <<op_POP_N, processedCount>>
                               ELSE <<op_POP>>)
                              \o <<op_POP_CURR_POS>> \o <<op_PUSH_FAILED>>),
             st |-> rest.st, env |-> rest.env]
  ELSE IF context.hasPluck /\ Len(context.pluck) > 0
    THEN [code |-> <<op_PLUCK, Len(node.elements) + 1, Len(context.pluck)>>
                     \o [k \in DOMAIN context.pluck |-> context.sp - context.pluck[k]],
          st |-> st, env |-> context.env]
  ELSE IF context.action # Undefined
    THEN LET functionIndex == addFunctionConst(st.functions, FALSE,
                                Keys(context.env), context.action[1])
         IN [code |-> <<op_LOAD_SAVED_POS, Len(node.elements)>>
                        \o buildCall(functionIndex.index, Len(node.elements) + 1,
                                     context.env, context.sp),
             st |-> [st EXCEPT !.functions = functionIndex.pool],
             env |-> context.env]
  ELSE [code |-> <<op_WRAP, Len(node.elements)>> \o <<op_NIP>>,
        st |-> st, env |-> context.env]

generateSequence(ast, node, context, st) ==
  LET r == buildElementsCode(ast, node, 1,
             Ctx(context.sp + 1, context.env, TRUE, << >>, context.action), st)
  IN [code |-> <<op_PUSH_CURR_POS>> \o r.code, st |-> r.st, env |-> r.env,
      pluck |-> context.pluck]

\* A labeled handler that binds the label before it clones env, so that the
\* operand of the label sees the label.
generateLabeledBound(ast, node, context, st) ==
  LET label == node.label
      hasLabel == label # Null /\ label # ""
      sp == context.sp + 1
      env1 == IF hasLabel THEN EnvSet(context.env, label, sp) ELSE context.env
      pluck1 == IF node.pick THEN Append(context.pluck, sp) ELSE context.pluck
      r == generate(ast, node.expression,
                    Ctx(context.sp, env1, FALSE, << >>, Undefined), st)
  IN IF node.pick /\ ~context.hasPluck THEN Impossible(st, [context EXCEPT !.env = env1])
     ELSE [code |-> r.code, st |-> r.st,
           env |-> IF hasLabel THEN env1 ELSE r.env, pluck |-> pluck1]

generateLabeled(ast, node, context, st) ==
  LET label == node.label
      hasLabel == label # Null /\ label # ""
      sp == context.sp + 1
      env1 == IF hasLabel THEN EnvSet(context.env, label, sp) ELSE context.env
      pluck1 == IF node.pick THEN Append(context.pluck, sp) ELSE context.pluck
      r == generate(ast, node.expression,
                    Ctx(context.sp, context.env, FALSE, << >>, Undefined), st)
  IN IF node.pick /\ ~context.hasPluck THEN Impossible(st, [context EXCEPT !.env = env1])
     ELSE [code |-> r.code, st |-> r.st,
           env |-> IF hasLabel THEN env1 ELSE r.env, pluck |-> pluck1]

generateText(ast, node, context, st) ==
  LET r == generate(ast, node.expression, Cloned(context, context.sp + 1), st)
  IN Result(<<op_PUSH_CURR_POS>> \o r.code
              \o buildCondition(MatchTag(ast, node), <<op_IF_NOT_ERROR>>,
                                <<op_POP>> \o <<op_TEXT>>, <<op_NIP>>),
            r.st, context)

buildSimplePredicate(ast, expression, negative, context, st) ==
  LET match == MatchTag(ast, expression)
      r == generate(ast, expression, Cloned(context, context.sp + 1), st)
  IN Result(<<op_PUSH_CURR_POS>> \o <<op_SILENT_FAILS_ON>> \o r.code
              \o <<op_SILENT_FAILS_OFF>>
              \o buildCondition(
                   IF negative THEN 0 - match ELSE match,
                   <<IF negative THEN op_IF_ERROR ELSE op_IF_NOT_ERROR>>,
                   <<op_POP>>
                     \o <<IF negative THEN op_POP ELSE op_POP_CURR_POS>>
                     \o <<op_PUSH_UNDEFINED>>,
                   <<op_POP>>
                     \o <<IF negative THEN op_POP_CURR_POS ELSE op_POP>>
                     \o <<op_PUSH_FAILED>>),
            r.st, context)

buildSemanticPredicate(ast, node, negative, context, st) ==
  LET functionIndex == addFunctionConst(st.functions, TRUE, Keys(context.env), node)
  IN Result(<<op_UPDATE_SAVED_POS>>
              \o buildCall(functionIndex.index, 0, context.env, context.sp)
              \o buildCondition(MatchTag(ast, node), <<op_IF>>,
                   <<op_POP>>
                     \o (IF negative THEN <<op_PUSH_FAILED>> ELSE <<op_PUSH_UNDEFINED>>),
                   <<op_POP>>
                     \o (IF negative THEN <<op_PUSH_UNDEFINED>> ELSE <<op_PUSH_FAILED>>)),
            [st EXCEPT !.functions = functionIndex.pool], context)

generateOptional(ast, node, context, st) ==
  LET r == generate(ast, node.expression, Cloned(context, context.sp), st)
  IN Result(r.code
              \o buildCondition(0 - MatchTag(ast, node.expression), <<op_IF_ERROR>>,
                                <<op_POP>> \o <<op_PUSH_NULL>>, << >>),
            r.st, context)

generateZeroOrMore(ast, node, context, st) ==
  LET r == generate(ast, node.expression, Cloned(context, context.sp + 1), st)
  IN Result(<<op_PUSH_EMPTY_ARRAY>> \o r.code \o buildAppendLoop(r.code)
              \o <<op_POP>>,
            r.st, context)

generateOneOrMore(ast, node, context, st) ==
  LET r == generate(ast, node.expression, Cloned(context, context.sp + 1), st)
  IN Result(<<op_PUSH_EMPTY_ARRAY>> \o r.code
              \o buildCondition(MatchTag(ast, node.expression), <<op_IF_NOT_ERROR>>,
                   buildAppendLoop(r.code) \o <<op_POP>>,
                   <<op_POP>> \o <<op_POP>> \o <<op_PUSH_FAILED>>),
            r.st, context)

generateLiteral(ast, node, context, st) ==
  IF StringLength(node.value) > 0
    THEN LET match == MatchTag(ast, node)
             needConst == \/ match = SOMETIMES
                          \/ (match = ALWAYS /\ ~node.ignoreCase)
             stringIndex ==
               IF needConst
                 THEN addLiteralConst(st.literals,
                        IF node.ignoreCase THEN toLowerCase(node.value)
                        ELSE node.value)
                 ELSE [index |-> NullOperand, pool |-> st.literals]
             expectedIndex ==
               IF match # ALWAYS
                 THEN addExpectedConst(st.expectations,
                        [type |-> "literal", value |-> node.value,
                         ignoreCase |-> node.ignoreCase])
                 ELSE [index |-> NullOperand, pool |-> st.expectations]
         IN Result(
              buildCondition(match,
                IF node.ignoreCase
                  THEN <<op_MATCH_STRING_IC, stringIndex.index>>
                  ELSE <<op_MATCH_STRING, stringIndex.index>>,
                IF node.ignoreCase
                  THEN <<op_ACCEPT_N, StringLength(node.value)>>
                  ELSE <<op_ACCEPT_STRING, stringIndex.index>>,
                <<op_FAIL, expectedIndex.index>>),
              [st EXCEPT !.literals = stringIndex.pool,
                         !.expectations = expectedIndex.pool],
              context)
    ELSE Result(<<op_PUSH_EMPTY_STRING>>, st, context)

generateClass(ast, node, context, st) ==
  LET match == MatchTag(ast, node)
      classIndex == IF match = SOMETIMES THEN addClassConst(st.classes, node)
                    ELSE [index |-> NullOperand, pool |-> st.classes]
      expectedIndex ==
        IF match # ALWAYS
          THEN addExpectedConst(st.expectations,
                 [type |-> "class", value |-> node.parts,
                  inverted |-> node.inverted, ignoreCase |-> node.ignoreCase])
          ELSE [index |-> NullOperand, pool |-> st.expectations]
  IN Result(
       buildCondition(match, <<op_MATCH_CHAR_CLASS, classIndex.index>>,
                      <<op_ACCEPT_N, 1>>, <<op_FAIL, expectedIndex.index>>),
       [st EXCEPT !.classes = classIndex.pool,
                  !.expectations = expectedIndex.pool],
       context)

\* An any handler that computes the expectation only for a node that
\* sometimes matches.
generateAnyLazy(ast, node, context, st) ==
  LET match == MatchTag(ast, node)
      expectedIndex ==
        IF match = SOMETIMES
          THEN addExpectedConst(st.expectations, [type |-> "any"])
          ELSE [index |-> NullOperand, pool |-> st.expectations]
  IN Result(
       buildCondition(match, <<op_MATCH_ANY>>, <<op_ACCEPT_N, 1>>,
                      <<op_FAIL, expectedIndex.index>>),
       [st EXCEPT !.expectations = expectedIndex.pool], context)

generateAny(ast, node, context, st) ==
  LET match == MatchTag(ast, node)
      expectedIndex ==
        IF match # ALWAYS
          THEN addExpectedConst(st.expectations, [type |-> "any"])
          ELSE [index |-> NullOperand, pool |-> st.expectations]
  IN Result(
       buildCondition(match, <<op_MATCH_ANY>>, <<op_ACCEPT_N, 1>>,
                      <<op_FAIL, expectedIndex.index>>),
       [st EXCEPT !.expectations = expectedIndex.pool], context)

\* generate(node, context) for the nodes below a rule.
generate(ast, node, context, st) ==
  IF st.thrown # NoThrow THEN Result(<< >>, st, context)
  ELSE CASE node.type = "named" -> generateNamed(ast, node, context, st)
    [] node.type = "choice" -> generateChoice(ast, node, context, st)
    [] node.type = "action" -> generateAction(ast, node, context, st)
    [] node.type = "sequence" -> generateSequence(ast, node, context, st)
    [] node.type = "labeled" -> generateLabeled(ast, node, context, st)
    [] node.type = "text" -> generateText(ast, node, context, st)
    [] node.type = "simple_and" ->
         buildSimplePredicate(ast, node.expression, FALSE, context, st)
    [] node.type = "simple_not" ->
         buildSimplePredicate(ast, node.expression, TRUE, context, st)
    [] node.type = "optional" -> generateOptional(ast, node, context, st)
    [] node.type = "zero_or_more" -> generateZeroOrMore(ast, node, context, st)
    [] node.type = "one_or_more" -> generateOneOrMore(ast, node, context, st)
    [] node.type = "group" ->
         LET r == generate(ast, node.expression, Cloned(context, context.sp), st)
         IN Result(r.code, r.st, context)
    [] node.type = "semantic_and" ->
         buildSemanticPredicate(ast, node, FALSE, context, st)
    [] node.type = "semantic_not" ->
         buildSemanticPredicate(ast, node, TRUE, context, st)
    [] node.type = "rule_ref" ->
         Result(<<op_RULE, indexOfRule(ast, node.name) - 1>>, st, context)
    [] node.type = "literal" -> generateLiteral(ast, node, context, st)
    [] node.type = "class" -> generateClass(ast, node, context, st)
    [] node.type = "any" -> generateAny(ast, node, context, st)

\* The rule handler: the bytecode of the rule and the state it leaves.
generateRule(ast, node, st) ==
  generate(ast, node.expression, Ctx(0 - 1, << >>, TRUE, << >>, Undefined), st)

\* node.rules.forEach(rule => generate(rule, null)): w is [rules, st].
RECURSIVE generateRules(_, _, _)
generateRules(ast, i, w) ==
  IF i > Len(ast.rules) \/ w.st.thrown # NoThrow THEN w
  ELSE LET r == generateRule(ast, ast.rules[i], w.st)
       IN generateRules(ast, i + 1,
            [rules |-> IF r.st.thrown # NoThrow THEN w.rules
                       ELSE [w.rules EXCEPT ![i].bytecode = r.code],
             st |-> r.st])

\* The pass: generate(ast, null).  The grammar handler writes the pools on
\* the Grammar node after the rules.
generateBytecode(ast, session) ==
  LET w == generateRules(ast, 1,
             [rules |-> ast.rules,
              st |-> [literals |-> << >>, classes |-> << >>,
                      expectations |-> << >>, functions |-> << >>,
                      thrown |-> NoThrow]])
  IN [ast |-> IF w.st.thrown # NoThrow THEN [ast EXCEPT !.rules = w.rules]
              ELSE [ast EXCEPT !.rules = w.rules,
                               !.literals = w.st.literals,
                               !.classes = w.st.classes,
                               !.expectations = w.st.expectations,
                               !.functions = w.st.functions],
      session |-> session, thrown |-> w.st.thrown]

\* generateJS sets ast.code.
generateJS(ast, session) ==
  [ast |-> [ast EXCEPT !.code = TRUE], session |-> session, thrown |-> NoThrow]

(***************************************************************************)
(* The driver: compile and compiler.passes.                                *)
(***************************************************************************)
\* compiler.passes, in declaration order.
Stages ==
  <<[name |-> "check",
     passes |-> <<"reportUndefinedRules", "reportDuplicateRules",
                  "reportDuplicateLabels", "reportInfiniteRecursion",
                  "reportInfiniteRepetition", "reportIncorrectPlucking">>],
    [name |-> "transform",
     passes |-> <<"removeProxyRules", "inferenceMatchResult">>],
    [name |-> "generate",
     passes |-> <<"generateBytecode", "generateJS">>]>>

(***************************************************************************)
(* The module peg (lib/peg.ts).  Arrays are objects: heap is the sequence  *)
(* of the arrays that exist, an array is referred to by its position, and  *)
(* a record of stage names to positions is an object of pass lists.  The   *)
(* lists of compiler.passes are the arrays 1 to 3, RESERVED_WORDS is the   *)
(* array 4.                                                                *)
(***************************************************************************)
RESERVED_WORDS ==
  <<"break", "case", "catch", "class", "const", "continue",
    "debugger", "default", "delete", "do", "else", "export",
    "extends", "finally", "for", "function", "if", "import", "in",
    "instanceof", "new", "return", "super", "switch", "this", "throw",
    "try", "typeof", "var", "void", "while", "with", "null", "true",
    "false", "enum", "implements", "interface", "let", "package",
    "private", "protected", "public", "static", "yield", "await">>

StageKeys == [i \in DOMAIN Stages |-> Stages[i].name]
CompilerPasses == [n \in {"check", "transform", "generate"} |->
                     CHOOSE i \in DOMAIN Stages : Stages[i].name = n]
ReservedWordsAt == Len(Stages) + 1
ModuleHeap == [i \in DOMAIN Stages |-> Stages[i].passes] \o <<RESERVED_WORDS>>

\* A copyPasses that copies the object and not its lists.
copyPassesShallow(heap, passes) == [copy |-> passes, heap |-> heap]

\* copyPasses: {...passes}, then each stage's list replaced by a copy of it.
copyPasses(heap, passes) ==
  [copy |-> [n \in DOMAIN passes |->
               Len(heap) + (CHOOSE i \in DOMAIN StageKeys : StageKeys[i] = n)],
   heap |-> heap \o [i \in DOMAIN StageKeys |-> heap[passes[StageKeys[i]]]]]

\* array.slice(): a new array with the elements of the array at a.
slice(heap, a) == [copy |-> Len(heap) + 1, heap |-> Append(heap, heap[a])]

\* The plugins: what use(config, options) does to config.  push and shift
\* change an array in place, replace assigns a new array.
Plugins ==
  {[op |-> o, stage |-> n] :
     o \in {"push", "shift", "replace"}, n \in {"check", "transform", "generate"}}
    \cup {[op |-> o, stage |-> ""] : o \in {"pushWord", "shiftWord", "replaceWords"}}

\* plugin.use(config, options): the config and the heap it leaves.
use(plugin, config, heap) ==
  LET a == IF plugin.stage = "" THEN config.reservedWords
           ELSE config.passes[plugin.stage]
      new == Len(heap) + 1
  IN CASE plugin.op = "push" ->
            [config |-> config, heap |-> [heap EXCEPT ![a] = Append(@, "plugin")]]
       [] plugin.op = "pushWord" ->
            [config |-> config, heap |-> [heap EXCEPT ![a] = Append(@, "word")]]
       [] plugin.op \in {"shift", "shiftWord"} ->
            [config |-> config,
             heap |-> [heap EXCEPT ![a] = IF Len(@) = 0 THEN @ ELSE Tail(@)]]
       [] plugin.op = "replace" ->
            [config |-> [config EXCEPT !.passes[plugin.stage] = new],
             heap |-> Append(heap, <<"plugin">>)]
       [] plugin.op = "replaceWords" ->
            [config |-> [config EXCEPT !.reservedWords = new],
             heap |-> Append(heap, << >>)]

\* No call of generate is in progress, none was made.
NoGenerate ==
  [heap |-> ModuleHeap, config |-> Undefined, plugins |-> << >>, k |-> 1,
   trace |-> << >>, ran |-> Undefined]

VARIABLES
  ast,         \* the Grammar node compile was given
  rawOptions,  \* the options compile was given
  options,     \* the parsed options
  session,     \* the Session of this compilation
  pc,          \* where compile is
  si,          \* index of the current stage in Stages
  pi,          \* index of the next pass of the current stage
  thrown,      \* the exception compile ended with
  at,          \* the step of compile the exception came out of
  peg          \* the arrays of the module peg and the call of generate

vars == <<ast, rawOptions, options, session, pc, si, pi, thrown, at, peg>>

NoOptions == [allowedStartRules |-> << >>]

\* A parseOptions that takes the start rules as they are given.
parseOptionsUnchecked(grammar, raw) ==
  IF raw.allowedStartRules = Undefined /\ Len(grammar.rules) = 0
    THEN [options |-> NoOptions,
          thrown |-> Throw("Error", <<"Must have at least one start rule">>)]
  ELSE [options |->
          [allowedStartRules |->
             IF raw.allowedStartRules = Undefined
               THEN <<grammar.rules[1].name>>
               ELSE raw.allowedStartRules[1]],
        thrown |-> NoThrow]

\* parseOptions and the validation of allowedStartRules; the result is the
\* parsed options and the exception thrown, if any.
parseOptions(grammar, raw) ==
  IF raw.allowedStartRules = Undefined /\ Len(grammar.rules) = 0
    THEN [options |-> NoOptions,
          thrown |-> Throw("Error", <<"Must have at least one start rule">>)]
  ELSE LET allowed == IF raw.allowedStartRules = Undefined
                        THEN <<grammar.rules[1].name>>
                        ELSE raw.allowedStartRules[1]
           allRules == [i \in DOMAIN grammar.rules |-> grammar.rules[i].name]
           isRule(n) == \E i \in DOMAIN allRules : allRules[i] = n
       IN IF \E k \in DOMAIN allowed : allowed[k] = "*"
            THEN [options |-> [allowedStartRules |-> allRules], thrown |-> NoThrow]
          ELSE IF \E k \in DOMAIN allowed : ~isRule(allowed[k])
            THEN [options |-> [allowedStartRules |-> allowed],
                  thrown |->
                    LET k == CHOOSE k \in DOMAIN allowed :
                               /\ ~isRule(allowed[k])
                               /\ \A j \in 1..(k - 1) : isRule(allowed[j])
                    IN Throw("Error", <<"Unknown start rule \"", allowed[k], "\"">>)]
          ELSE [options |-> [allowedStartRules |-> allowed], thrown |-> NoThrow]

\* compile, up to the creation of the session.
Compile ==
  /\ pc = "compile"
  /\ LET r == parseOptions(ast, rawOptions)
     IN /\ options' = r.options
        /\ thrown' = r.thrown
        /\ pc' = IF r.thrown # NoThrow THEN "thrown" ELSE "stage"
        /\ at' = IF r.thrown # NoThrow THEN "compile" ELSE at
  /\ session' = NewSession
  /\ si' = 1
  /\ UNCHANGED <<peg, ast, rawOptions, pi>>

\* The head of the loop over the stages.
BeginStage ==
  /\ pc = "stage"
  /\ LET s1 == [session EXCEPT !.stage = Stages[si].name]
         r == SessionInfo(s1, <<"Process stage ", Stages[si].name>>,
                          Undefined, Undefined)
     IN session' = r.session
  /\ pi' = 1
  /\ pc' = IF Len(Stages[si].passes) = 0 THEN "checkErrors" ELSE "pass"
  /\ UNCHANGED <<peg, ast, rawOptions, options, si, thrown, at>>

AtPass(name) == pc = "pass" /\ Stages[si].passes[pi] = name

\* session.info(`Process pass ${stageName}.${pass.name}`)
PassInfo(name) ==
  SessionInfo(session, <<"Process pass ", Stages[si].name, ".", name>>,
              Undefined, Undefined).session

\* What the loop over the passes does with the outcome r of a pass.
AfterPass(r) ==
  /\ session' = r.session
  /\ thrown' = r.thrown
  /\ IF r.thrown # NoThrow
       THEN pc' = "thrown" /\ pi' = pi /\ at' = "pass"
       ELSE IF pi < Len(Stages[si].passes)
         THEN pc' = "pass" /\ pi' = pi + 1 /\ at' = at
         ELSE pc' = "checkErrors" /\ pi' = pi /\ at' = at
  /\ UNCHANGED <<peg, rawOptions, options, si>>

ReportUndefinedRules ==
  /\ AtPass("reportUndefinedRules")
  /\ AfterPass(reportUndefinedRules(ast, PassInfo("reportUndefinedRules")))
  /\ UNCHANGED ast

ReportDuplicateRules ==
  /\ AtPass("reportDuplicateRules")
  /\ AfterPass(reportDuplicateRules(ast, PassInfo("reportDuplicateRules")))
  /\ UNCHANGED ast

ReportDuplicateLabels ==
  /\ AtPass("reportDuplicateLabels")
  /\ AfterPass(reportDuplicateLabels(ast, PassInfo("reportDuplicateLabels")))
  /\ UNCHANGED ast

ReportInfiniteRecursion ==
  /\ AtPass("reportInfiniteRecursion")
  /\ AfterPass(reportInfiniteRecursion(ast, PassInfo("reportInfiniteRecursion")))
  /\ UNCHANGED ast

ReportInfiniteRepetition ==
  /\ AtPass("reportInfiniteRepetition")
  /\ AfterPass(reportInfiniteRepetition(ast, PassInfo("reportInfiniteRepetition")))
  /\ UNCHANGED ast

ReportIncorrectPlucking ==
  /\ AtPass("reportIncorrectPlucking")
  /\ AfterPass(reportIncorrectPlucking(ast, PassInfo("reportIncorrectPlucking")))
  /\ UNCHANGED ast

RemoveProxyRules ==
  /\ AtPass("removeProxyRules")
  /\ LET r == removeProxyRules(ast, options.allowedStartRules,
                               PassInfo("removeProxyRules"))
     IN AfterPass(r) /\ ast' = r.ast

InferenceMatchResult ==
  /\ AtPass("inferenceMatchResult")
  /\ LET r == inferenceMatchResult(ast, PassInfo("inferenceMatchResult"))
     IN AfterPass(r) /\ ast' = r.ast

GenerateBytecode ==
  /\ AtPass("generateBytecode")
  /\ LET r == generateBytecode(ast, PassInfo("generateBytecode"))
     IN AfterPass(r) /\ ast' = r.ast

GenerateJS ==
  /\ AtPass("generateJS")
  /\ LET r == generateJS(ast, PassInfo("generateJS"))
     IN AfterPass(r) /\ ast' = r.ast

\* The GrammarError the session retains, as its holder sees it: problems is
\* the array of the session itself (this._firstError.problems =
\* this.problems), so it shows what the session has recorded since.
GrammarErrorOf(s) ==
  [message |-> s.firstError[1].message, location |-> s.firstError[1].location,
   notes |-> s.firstError[1].notes, stage |-> s.firstError[1].stage,
   problems |-> s.problems]

\* A checkErrors that only throws when at least two errors were reported.
checkErrorsSecond(s) ==
  IF s.errors > 1 THEN Throw("GrammarError", s.firstError[1].message)
  ELSE NoThrow

\* Session.checkErrors: what it throws, NoThrow if it returns.
checkErrors(s) ==
  IF s.errors # 0
    THEN IF s.firstError = Undefined THEN Throw("null", << >>)
         ELSE Throw("GrammarError", s.firstError[1].message)
    ELSE NoThrow

\* session.checkErrors() at the end of a stage, and the step of the loop.
CheckErrors ==
  /\ pc = "checkErrors"
  /\ thrown' = checkErrors(session)
  /\ IF checkErrors(session) # NoThrow
       THEN pc' = "thrown" /\ si' = si /\ at' = "checkErrors"
       ELSE IF si < Len(Stages)
         THEN pc' = "stage" /\ si' = si + 1 /\ at' = at
         ELSE pc' = "code" /\ si' = si /\ at' = at
  /\ UNCHANGED <<peg, ast, rawOptions, options, session, pi>>

\* const {code} = ast; if (!code) throw ...; the switch returns.
Return ==
  /\ pc = "code"
  /\ IF ast.code
       THEN pc' = "returned" /\ thrown' = thrown /\ at' = at
       ELSE /\ pc' = "thrown" /\ at' = "code"
            /\ thrown' = Throw("Error", <<"Failed to generate code">>)
  /\ UNCHANGED <<peg, ast, rawOptions, options, session, si, pi>>

Next ==
  \/ Compile
  \/ BeginStage
  \/ ReportUndefinedRules
  \/ ReportDuplicateRules
  \/ ReportDuplicateLabels
  \/ ReportInfiniteRecursion
  \/ ReportInfiniteRepetition
  \/ ReportIncorrectPlucking
  \/ RemoveProxyRules
  \/ InferenceMatchResult
  \/ GenerateBytecode
  \/ GenerateJS
  \/ CheckErrors
  \/ Return

(***************************************************************************)
(* The grammars compile is given.                                          *)
(***************************************************************************)
La == Literal("a")
Le == Literal("")
Opt(e) == Unary("optional", e)
Star(e) == Unary("zero_or_more", e)
Plus(e) == Unary("one_or_more", e)
Group(e) == Unary("group", e)

\* Sequences of length lo..hi over the set S.
SeqsOver(S, lo, hi) == UNION {[1..n -> S] : n \in lo..hi}

\* Reference family: rules a and b whose bodies are built from literals,
\* references (X names no rule), suffixed expressions, sequences and choices.
RefAtoms == {La, Le, RuleRef("a"), RuleRef("b"), RuleRef("X")}
RefSuffixed ==
  {Unary(t, e) : t \in {"optional", "zero_or_more", "one_or_more"},
                 e \in {La, Le, RuleRef("a"), RuleRef("b")}}
RefSimple == RefAtoms \cup RefSuffixed
RefPairs ==
  {Sequence(<<x, y>>) : x \in RefSimple, y \in RefAtoms}
    \cup {Choice(<<x, y>>) : x \in RefSimple, y \in RefAtoms}
RefNested ==
  {Unary(t, Sequence(<<x, y>>)) :
     t \in {"zero_or_more", "one_or_more"},
     x \in {Star(Le), Star(La), Plus(Le), Opt(La), La},
     y \in {La, Le}}
RefBodiesA == RefSimple \cup RefPairs \cup RefNested
RefBodiesB ==
  {La, Le, RuleRef("a"), RuleRef("b"), Sequence(<<La, RuleRef("b")>>),
   Sequence(<<Opt(La), RuleRef("a")>>), Choice(<<La, RuleRef("a")>>),
   Star(Le)}
RefGrammars ==
  {Grammar(<<Rule("a", x)>>) : x \in RefBodiesA}
    \cup {Grammar(<<Rule("a", x), Rule("b", y)>>) :
            x \in RefBodiesA, y \in RefBodiesB}

\* Proxy family: the rules a, b and c in every order, each a literal, a
\* reference (a proxy) or a reference after a literal.
ProxyNames == {"a", "b", "c"}
ProxyBodies ==
  {La} \cup {RuleRef(n) : n \in ProxyNames}
       \cup {Sequence(<<La, RuleRef(n)>>) : n \in ProxyNames}
ProxyGrammars ==
  {Grammar([i \in 1..3 |-> Rule(names[i], bodies[i])]) :
     names \in {f \in [1..3 -> ProxyNames] : \A i, j \in 1..3 : f[i] = f[j] => i = j},
     bodies \in [1..3 -> ProxyBodies]}

\* Rule-name family: up to MaxRules rules named a or b, in every order and
\* with every repetition of a name.
NameBodies == {La, RuleRef("a")}
NameGrammars ==
  {Grammar([i \in DOMAIN rs |-> Rule(rs[i][1], rs[i][2])]) :
     rs \in SeqsOver({"a", "b"} \X NameBodies, 0, MaxRules)}

\* Label family: one rule whose body holds labels x and y, plucks and
\* actions, in sequences, choices, groups and suffixed expressions.
LabelItems ==
  {La, Labeled("x", FALSE, La), Labeled("y", FALSE, La),
   Labeled("x", TRUE, La), Labeled(Null, TRUE, La)}
LabelWrapped ==
  {Group(e) : e \in LabelItems \ {La}}
    \cup {Opt(e) : e \in LabelItems \ {La}}
    \cup {Action(e) : e \in LabelItems \ {La}}
    \cup {Labeled("x", FALSE, Group(e)) : e \in LabelItems \ {La}}
    \cup {Labeled("y", TRUE, Action(e)) : e \in LabelItems \ {La}}
LabelElements == LabelItems \cup LabelWrapped
LabelSequences ==
  {Sequence(<<x, y>>) : x \in LabelElements, y \in LabelElements}
    \cup {Sequence(es) : es \in SeqsOver(LabelItems, 3, MaxElems)}
LabelAlternatives ==
  {Sequence(<<x, y>>) : x \in LabelItems, y \in LabelItems}
LabelBodies ==
  LabelSequences
    \cup {Action(e) : e \in LabelSequences}
    \cup {Choice(<<x, y>>) : x \in LabelAlternatives, y \in LabelItems}
    \cup {Sequence(<<x, Group(Choice(<<y, z>>)), w>>) :
            x \in LabelItems, y \in LabelItems \ {La}, z \in {La, Labeled("x", FALSE, La)},
            w \in {Labeled("x", FALSE, La), Labeled("y", TRUE, La)}}
    \cup {Sequence(<<x, Labeled(l, FALSE, Sequence(<<y, z>>))>>) :
            x \in LabelItems, l \in {"x", "y"}, y \in LabelItems, z \in LabelItems}
LabelGrammars ==
  {Grammar(<<Rule("a", x)>>) : x \in LabelBodies}
    \cup {Grammar(<<Rule("a", x), Rule("b", y)>>) :
            x \in LabelAlternatives, y \in LabelItems}

\* The grammars of the documentation: start = X, start = "a"? start,
\* start = start "a", and A = B with B = "x".
StartUndefined == Grammar(<<Rule("start", RuleRef("X"))>>)
StartOptStart ==
  Grammar(<<Rule("start", Sequence(<<Opt(La), RuleRef("start")>>))>>)
StartStartA == Grammar(<<Rule("start", Sequence(<<RuleRef("start"), La>>))>>)
ProxyAB == Grammar(<<Rule("A", RuleRef("B")), Rule("B", Literal("x"))>>)
ExampleGrammars == {StartUndefined, StartOptStart, StartStartA, ProxyAB}

\* The options compile is given: allowedStartRules absent, or a list.
RawOptions ==
  {[allowedStartRules |-> Undefined]}
    \cup {[allowedStartRules |-> <<l>>] : l \in {<<"b">>, <<"*">>, <<"a", "c">>}}

InitWith(grammars, raws) ==
  /\ peg = NoGenerate
  /\ ast \in grammars
  /\ rawOptions \in raws
  /\ options = NoOptions
  /\ session = NewSession
  /\ pc = "compile"
  /\ si = 1
  /\ pi = 1
  /\ thrown = NoThrow
  /\ at = ""

Init == InitWith(RefGrammars \cup ProxyGrammars \cup ExampleGrammars, RawOptions)
Spec == Init /\ [][Next]_vars

\* The name family, the grammar without rules included, with every option.
InitOptions == InitWith(NameGrammars, RawOptions)
SpecOptions == InitOptions /\ [][Next]_vars

InitNames == InitWith(NameGrammars, {[allowedStartRules |-> Undefined]})
SpecNames == InitNames /\ [][Next]_vars

InitLabels == InitWith(LabelGrammars, {[allowedStartRules |-> Undefined]})
SpecLabels == InitLabels /\ [][Next]_vars

\* Inference family: the rules a and b, whose bodies are built from
\* literals, the empty class, references to a and b (so that the rules may
\* be directly or mutually recursive), predicates, suffixed expressions,
\* sequences and choices.
Not(e) == Unary("simple_not", e)
InferenceAtoms == {La, Le, EmptyClass, RuleRef("a"), RuleRef("b")}
InferenceSimple ==
  InferenceAtoms
    \cup {Unary(t, e) : t \in {"simple_not", "optional", "one_or_more"},
                        e \in InferenceAtoms}
InferenceTails == InferenceAtoms \cup {Not(RuleRef("a")), Not(RuleRef("b"))}
InferencePairs ==
  {Sequence(<<x, y>>) : x \in InferenceSimple, y \in InferenceTails}
    \cup {Choice(<<x, y>>) : x \in InferenceSimple, y \in InferenceTails}
InferenceBodiesA ==
  InferenceSimple \cup InferencePairs \cup {Not(e) : e \in InferencePairs}
InferenceBodiesB ==
  InferenceSimple
    \cup {Sequence(<<x, RuleRef("a")>>) : x \in {Le, EmptyClass, Opt(La), Not(RuleRef("a"))}}
    \cup {Choice(<<x, RuleRef("a")>>) : x \in {Le, EmptyClass, Not(RuleRef("b"))}}
    \cup {Not(Sequence(<<Le, RuleRef("a")>>)), Not(Choice(<<EmptyClass, RuleRef("a")>>))}
InferenceGrammars ==
  {Grammar(<<Rule("a", x), Rule("b", y)>>) :
     x \in InferenceBodiesA, y \in InferenceBodiesB}
    \cup {Grammar(<<Rule("A", Sequence(<<Opt(La), Literal("b")>>))>>)}

\* The rule handler of match inference applied to a rule of the grammar.
InferenceRule ==
  /\ thrown = NoThrow
  /\ \E i \in DOMAIN ast.rules :
       LET r == inferenceRun(ast, ast.rules[i])
       IN /\ ast' = [ast EXCEPT !.match = r.st.m]
          /\ thrown' = r.st.thrown
  /\ UNCHANGED <<peg, rawOptions, options, session, pc, si, pi, at>>

NextInference == InferenceRule

InitInference == InitWith(InferenceGrammars, {[allowedStartRules |-> Undefined]})
SpecInference == InitInference /\ [][NextInference]_vars

(***************************************************************************)
(* Vocabulary of the properties.                                           *)
(***************************************************************************)
problems == session.problems

IsPrefix(xs, ys) == Len(xs) <= Len(ys) /\ SubSeq(ys, 1, Len(xs)) = xs

\* The info messages of the driver.
StageMessage(i) == <<"Process stage ", Stages[i].name>>
PassMessage(i, j) ==
  <<"Process pass ", Stages[i].name, ".", Stages[i].passes[j]>>
IsMarker(p) ==
  p.severity = "info" /\ p.message[1] \in {"Process stage ", "Process pass "}

\* All the driver's messages of a full compilation, in the order of
\* compiler.passes.
RECURSIVE MessagesFrom(_)
MessagesFrom(i) ==
  IF i > Len(Stages) THEN << >>
  ELSE <<StageMessage(i)>>
         \o [j \in DOMAIN Stages[i].passes |-> PassMessage(i, j)]
         \o MessagesFrom(i + 1)
CanonicalMessages == MessagesFrom(1)

MarkerMessages ==
  LET ms == SelectSeq(problems, IsMarker)
  IN [k \in DOMAIN ms |-> ms[k].message]

StageOfPass(name) ==
  CHOOSE i \in DOMAIN Stages :
    \E j \in DOMAIN Stages[i].passes : Stages[i].passes[j] = name

\* The position in problems of the message announcing a pass, 0 if none.
MarkerIndex(name) ==
  LET m == <<"Process pass ", Stages[StageOfPass(name)].name, ".", name>>
  IN IF \E i \in DOMAIN problems : problems[i].message = m
       THEN CHOOSE i \in DOMAIN problems : problems[i].message = m
       ELSE 0

\* The pass was started, and it returned or threw.
PassOver(name) == MarkerIndex(name) # 0
\* The pass was started and it returned.
PassReturned(name) ==
  /\ PassOver(name)
  /\ ~(pc = "thrown" /\ at = "pass" /\ Stages[si].passes[pi] = name)

\* What the pass reported: the problems between its message and the next
\* message of the driver.
ProblemsOf(name) ==
  LET i == MarkerIndex(name)
      later == {j \in DOMAIN problems : j > i /\ IsMarker(problems[j])}
      end == IF later = {} THEN Len(problems) + 1
             ELSE CHOOSE j \in later : \A k \in later : j <= k
  IN IF i = 0 THEN << >> ELSE SubSeq(problems, i + 1, end - 1)

IsError(p) == p.severity = "error"
ErrorsOf(name) == SelectSeq(ProblemsOf(name), IsError)
AllErrors == SelectSeq(problems, IsError)

Range(f) == {f[i] : i \in DOMAIN f}

\* The children of a node, in order.
Children(node) ==
  CASE node.type = "grammar" -> node.rules
    [] node.type = "sequence" -> node.elements
    [] node.type = "choice" -> node.alternatives
    [] node.type \in WrapperTypes \cup {"rule"} -> <<node.expression>>
    [] OTHER -> << >>

\* Every node below (and including) node, each with the chain of its
\* ancestors: anc[k].parent is the k-th ancestor from the top and
\* anc[k].idx the position of the next node of the chain among its children.
RECURSIVE Occurrences(_, _)
Occurrences(node, anc) ==
  {[node |-> node, anc |-> anc]}
    \cup UNION {Occurrences(Children(node)[k],
                            Append(anc, [parent |-> node, idx |-> k])) :
                  k \in DOMAIN Children(node)}

RuleRefs(grammar) ==
  {o.node : o \in {x \in Occurrences(grammar, << >>) : x.node.type = "rule_ref"}}
UndefinedRefs(grammar) ==
  {n \in RuleRefs(grammar) : findRule(grammar, n.name) = Undefined}
AllRefsDefined(grammar) == UndefinedRefs(grammar) = {}

(***************************************************************************)
(* C1.  compile runs the stages in the order check, transform, generate    *)
(* and the passes of a stage in registration order; when the end of a      *)
(* stage is reached with at least one error reported, the retained first   *)
(* error is thrown there, and no later stage is ever started once an       *)
(* error was reported; when no error was reported the next stage starts.   *)
(***************************************************************************)
C1_Order ==
  /\ IsPrefix(MarkerMessages, CanonicalMessages)
  /\ \A i, j \in DOMAIN problems :
       (i < j /\ IsError(problems[i])) => problems[j].message[1] # "Process stage "
  /\ (pc = "thrown" /\ at = "checkErrors") =>
       /\ AllErrors # << >>
       /\ thrown = Throw("GrammarError", AllErrors[1].message)
       /\ session.firstError[1].location = AllErrors[1].location
       /\ session.firstError[1].stage = Stages[si].name

C1_EndOfStage ==
  pc = "checkErrors" =>
    IF AllErrors # << >>
      THEN pc' = "thrown" /\ at' = "checkErrors"
      ELSE IF si < Len(Stages)
        THEN pc' = "stage" /\ si' = si + 1 /\ thrown' = NoThrow
        ELSE pc' = "code" /\ thrown' = NoThrow

C1_StageSequencing == []C1_Order /\ [][C1_EndOfStage]_vars

\* The check stage ran all its passes, two errors were reported, and the
\* first one was thrown at the end of the stage.
C1_Witness ==
  /\ pc = "thrown" /\ at = "checkErrors" /\ si = 1
  /\ Len(AllErrors) >= 2
  /\ Len(MarkerMessages) = 7

(***************************************************************************)
(* C2.  For every grammar in which some rule_ref names an undefined rule,  *)
(* all six check passes run to completion and compile ends by throwing the *)
(* session's GrammarError of stage check, whose problems hold exactly one  *)
(* error `Rule "X" is not defined` per such reference, at the reference;   *)
(* no other exception leaves the check stage.                              *)
(***************************************************************************)
C2_UndefinedRulesReported ==
  (UndefinedRefs(ast) # {} /\ pc = "thrown" /\ at # "compile") =>
    /\ at = "checkErrors"
    /\ thrown.kind = "GrammarError"
    /\ session.firstError[1].stage = "check"
    /\ Len(MarkerMessages) = 7
    /\ \A n \in UndefinedRefs(ast) :
         Cardinality({i \in DOMAIN problems :
                        /\ IsError(problems[i])
                        /\ problems[i].message = <<"Rule \"", n.name, "\" is not defined">>
                        /\ problems[i].location = n.location}) = 1

(***************************************************************************)
(* C3.  On every grammar whose references are all defined the passes of    *)
(* the check stage return (none of them throws), left recursion through a  *)
(* sequence included.                                                      *)
(***************************************************************************)
C3_CheckPassesReturn ==
  (si = 1 /\ AllRefsDefined(ast)) => ~(pc = "thrown" /\ at = "pass")

(***************************************************************************)
(* C4.  reportInfiniteRecursion reports at least one left recursion error  *)
(* if and only if some rule reaches itself through rule_refs in positions  *)
(* reachable without consuming input; a grammar that passes the check      *)
(* stage has no such chain.                                                *)
(***************************************************************************)
\* The names of the rule_refs of node in a position reachable without
\* consuming input: in a sequence the elements preceded only by elements
\* that do not always consume on success, every alternative of a choice,
\* the operand of every other expression.
RECURSIVE ReachableRefs(_, _)
ReachableRefs(grammar, node) ==
  CASE node.type = "rule_ref" -> {node.name}
    [] node.type = "sequence" ->
         UNION {ReachableRefs(grammar, node.elements[i]) :
                  i \in {k \in DOMAIN node.elements :
                           \A j \in 1..(k - 1) :
                             ~alwaysConsumesOnSuccess(grammar, node.elements[j]).value}}
    [] node.type = "choice" ->
         UNION {ReachableRefs(grammar, node.alternatives[i]) :
                  i \in DOMAIN node.alternatives}
    [] node.type \in WrapperTypes -> ReachableRefs(grammar, node.expression)
    [] OTHER -> {}

RuleNames(grammar) == {grammar.rules[i].name : i \in DOMAIN grammar.rules}

\* r calls n: a rule named r has a reachable reference to the rule n.
Calls(grammar, r, n) ==
  /\ n \in RuleNames(grammar)
  /\ \E i \in DOMAIN grammar.rules :
       /\ grammar.rules[i].name = r
       /\ n \in ReachableRefs(grammar, grammar.rules[i].expression)

\* The rules reached from the set of rules S by at most k further calls.
RECURSIVE CalledFrom(_, _, _)
CalledFrom(grammar, S, k) ==
  IF k = 0 THEN S
  ELSE CalledFrom(grammar,
         S \cup {n \in RuleNames(grammar) : \E r \in S : Calls(grammar, r, n)},
         k - 1)

LeftRecursive(grammar) ==
  \E r \in RuleNames(grammar) :
    r \in CalledFrom(grammar,
                     {n \in RuleNames(grammar) : Calls(grammar, r, n)},
                     Len(grammar.rules))

LeftRecursionErrors ==
  SelectSeq(ErrorsOf("reportInfiniteRecursion"),
            LAMBDA p : p.message[1] =
                         "Possible infinite loop when parsing (left recursion: ")

C4_LeftRecursionReported ==
  (si = 1 /\ PassOver("reportInfiniteRecursion")) =>
    /\ (LeftRecursionErrors # << >>) <=> LeftRecursive(ast)
    /\ (pc = "checkErrors" /\ AllErrors = << >>) => ~LeftRecursive(ast)

\* The same on the grammars whose references are all defined.
C4_DefinedReferences ==
  (si = 1 /\ PassOver("reportInfiniteRecursion") /\ AllRefsDefined(ast)) =>
    ((LeftRecursionErrors # << >>) <=> LeftRecursive(ast))

(***************************************************************************)
(* C5.  For start = "a"? start the check stage produces exactly one error, *)
(* at the name of rule start, with the message `Possible infinite loop     *)
(* when parsing (left recursion: start -> start)` and two notes.           *)
(***************************************************************************)
C5_StartOptStart ==
  (ast = StartOptStart /\ pc = "thrown" /\ at # "compile") =>
    /\ at = "checkErrors"
    /\ Len(AllErrors) = 1
    /\ AllErrors[1].message =
         <<"Possible infinite loop when parsing (left recursion: ",
           "start", " -> ", "start", ")">>
    /\ AllErrors[1].location = ast.rules[1].nameLocation
    /\ Len(AllErrors[1].notes) = 2

(***************************************************************************)
(* C6.  reportInfiniteRepetition reports exactly one error at every        *)
(* zero_or_more and one_or_more node, at any depth, whose operand does not *)
(* always consume on success, and none at the others.                      *)
(***************************************************************************)
Repetitions(grammar) ==
  {o.node : o \in {x \in Occurrences(grammar, << >>) :
                     x.node.type \in {"zero_or_more", "one_or_more"}}}

NonConsumingRepetitions(grammar) ==
  {n \in Repetitions(grammar) :
     ~alwaysConsumesOnSuccess(grammar, n.expression).value}

C6_EveryRepetitionChecked ==
  (si = 1 /\ PassReturned("reportInfiniteRepetition")) =>
    LET errs == ErrorsOf("reportInfiniteRepetition")
    IN /\ {errs[i].location : i \in DOMAIN errs}
            = {n.location : n \in NonConsumingRepetitions(ast)}
       /\ Len(errs) = Cardinality(NonConsumingRepetitions(ast))
       /\ \A i \in DOMAIN errs :
            errs[i].message =
              <<"Possible infinite loop when parsing (repetition used with an expression that may not consume any input)">>

(***************************************************************************)
(* C7.  reportDuplicateLabels reports `Label "L" is already defined` at a  *)
(* Labeled node if and only if its label L is non-null and L was bound     *)
(* earlier in the same sequence or in an enclosing scope to its left: a    *)
(* label bound only inside a sibling alternative of a choice, or only      *)
(* inside the finished operand of an action, prefixed, suffixed or group   *)
(* expression, causes no error, and each rule starts with an empty scope.  *)
(***************************************************************************)
LabeledOccurrences(grammar) ==
  {o \in Occurrences(grammar, << >>) :
     o.node.type = "labeled" /\ o.node.label # Null /\ o.node.label # ""}

\* The binding of m is in scope at n: both are below a sequence, m in an
\* element to the left of the element holding n, and no node between that
\* sequence and m gives its operand a scope of its own.
BoundBefore(m, n) ==
  \E d \in 1..Len(m.anc) :
    /\ d <= Len(n.anc)
    /\ \A k \in 1..(d - 1) : m.anc[k] = n.anc[k]
    /\ m.anc[d].parent = n.anc[d].parent
    /\ m.anc[d].parent.type = "sequence"
    /\ m.anc[d].idx < n.anc[d].idx
    /\ \A k \in (d + 1)..Len(m.anc) :
         m.anc[k].parent.type \in {"sequence", "labeled", "named"}

DuplicateLabels(grammar) ==
  {n \in LabeledOccurrences(grammar) :
     \E m \in LabeledOccurrences(grammar) :
       m.node.label = n.node.label /\ BoundBefore(m, n)}

C7_DuplicateLabels ==
  (si = 1 /\ PassReturned("reportDuplicateLabels")) =>
    LET errs == ErrorsOf("reportDuplicateLabels")
    IN /\ {<<errs[i].message, errs[i].location>> : i \in DOMAIN errs}
            = {<<(<<"Label \"", n.node.label, "\" is already defined">>),
                 n.node.labelLocation>> : n \in DuplicateLabels(ast)}
       /\ Len(errs) = Cardinality(DuplicateLabels(ast))

\* One duplicate was reported in a rule that also binds a label twice
\* without the first binding being in scope at the second.
C7_Witness ==
  /\ si = 1 /\ PassReturned("reportDuplicateLabels")
  /\ Len(ErrorsOf("reportDuplicateLabels")) = 1
  /\ \E m, n \in LabeledOccurrences(ast) :
       /\ m # n /\ m.node.label = n.node.label
       /\ ~BoundBefore(m, n) /\ ~BoundBefore(n, m)
       /\ \E k \in DOMAIN m.anc : m.anc[k].parent.type = "group"
       /\ \E k \in DOMAIN m.anc : m.anc[k].parent.type = "choice"

(***************************************************************************)
(* C8.  reportDuplicateRules reports exactly one `Rule "X" is already      *)
(* defined` error for every rule whose name is the name of an earlier      *)
(* rule of grammar.rules (the number of errors is the number of rules      *)
(* minus the number of distinct names), at the name of that rule, with a   *)
(* note at the name of the first rule of that name.                        *)
(***************************************************************************)
FirstRuleNamed(grammar, name) ==
  grammar.rules[indexOfRule(grammar, name)]

C8_DuplicateRules ==
  (si = 1 /\ PassReturned("reportDuplicateRules")) =>
    LET errs == ErrorsOf("reportDuplicateRules")
        repeated == {i \in DOMAIN ast.rules :
                       \E j \in 1..(i - 1) : ast.rules[j].name = ast.rules[i].name}
    IN /\ Len(errs) = Len(ast.rules) - Cardinality(RuleNames(ast))
       /\ Len(errs) = Cardinality(repeated)
       /\ \A i \in repeated :
            \E k \in DOMAIN errs :
              /\ errs[k].message =
                   <<"Rule \"", ast.rules[i].name, "\" is already defined">>
              /\ errs[k].location = ast.rules[i].nameLocation
              /\ errs[k].notes =
                   <<[message |-> <<"Original rule location">>,
                      location |->
                        FirstRuleNamed(ast, ast.rules[i].name).nameLocation]>>

\* Three rules of one name: two errors, both notes at the first rule.
C8_Witness ==
  /\ si = 1 /\ PassReturned("reportDuplicateRules")
  /\ Len(ast.rules) = 3
  /\ Cardinality(RuleNames(ast)) = 1
  /\ Len(ErrorsOf("reportDuplicateRules")) = 2

(***************************************************************************)
(* C9.  reportIncorrectPlucking reports `"@" cannot be used with an action *)
(* block` at a Labeled node with pick = true exactly when the node has an  *)
(* enclosing Action with no other Labeled node between that Action and the *)
(* node; the note is at the code of the nearest such Action, and at most   *)
(* one error is reported per Labeled node.                                 *)
(***************************************************************************)
Picks(grammar) ==
  {o \in Occurrences(grammar, << >>) : o.node.type = "labeled" /\ o.node.pick}

\* The positions in the chain of ancestors of the actions and labeled nodes.
Scoping(o) ==
  {k \in DOMAIN o.anc : o.anc[k].parent.type \in {"action", "labeled"}}

NearestScoping(o) ==
  o.anc[CHOOSE k \in Scoping(o) : \A j \in Scoping(o) : j <= k].parent

PluckedInAction(grammar) ==
  {o \in Picks(grammar) :
     Scoping(o) # {} /\ NearestScoping(o).type = "action"}

C9_IncorrectPlucking ==
  (si = 1 /\ PassReturned("reportIncorrectPlucking")) =>
    LET errs == ErrorsOf("reportIncorrectPlucking")
    IN /\ {<<errs[i].message, errs[i].location, errs[i].notes>> : i \in DOMAIN errs}
            = {<<(<<"\"@\" cannot be used with an action block">>),
                 o.node.labelLocation,
                 (<<[message |-> <<"Action block location">>,
                     location |-> NearestScoping(o).codeLocation]>>)>> :
                 o \in PluckedInAction(ast)}
       /\ Len(errs) = Cardinality(PluckedInAction(ast))

\* One pluck directly in an action was reported and another, separated from
\* the action by a labeled node, was not.
C9_Witness ==
  /\ si = 1 /\ PassReturned("reportIncorrectPlucking")
  /\ Len(ErrorsOf("reportIncorrectPlucking")) >= 1
  /\ \E o \in Picks(ast) \ PluckedInAction(ast) :
       \E k \in DOMAIN o.anc : o.anc[k].parent.type = "action"

(***************************************************************************)
(* C10.  After removeProxyRules on a grammar that passed the check stage   *)
(* every rule named in allowedStartRules is still in grammar.rules, and    *)
(* every rule_ref names a rule that is still in grammar.rules, also when   *)
(* proxies form chains, in either order of declaration.                    *)
(***************************************************************************)
ProxyInfos ==
  SelectSeq(ProblemsOf("removeProxyRules"),
            LAMBDA p : p.severity = "info" /\ p.message[1] = "Proxy rule \"")

C10_ProxyRemovalSafe ==
  PassReturned("removeProxyRules") =>
    /\ \A k \in DOMAIN options.allowedStartRules :
         options.allowedStartRules[k] \in RuleNames(ast)
    /\ AllRefsDefined(ast)

\* A chain of two proxies was removed: of three rules one is left, and a
\* reference to a proxy was redirected.
C10_Witness ==
  /\ PassReturned("removeProxyRules")
  /\ Len(ast.rules) = 1
  /\ Len(ProxyInfos) >= 1
  /\ Len(options.allowedStartRules) = 1

(***************************************************************************)
(* C11.  After the inferenceMatchResult pass, run as the driver runs it    *)
(* (on the Grammar node), every rule and every expression node of the      *)
(* grammar has a match value in {-1, 0, +1}.                               *)
(***************************************************************************)
HasMatch(grammar, node) == node.location \in DOMAIN grammar.match
MatchOf(grammar, node) == grammar.match[node.location]

\* The rules and the expression nodes of the grammar.
ExprNodes(grammar) ==
  {o.node : o \in {x \in Occurrences(grammar, << >>) : x.node.type # "grammar"}}

C11_EveryNodeHasMatch ==
  PassReturned("inferenceMatchResult") =>
    \A n \in ExprNodes(ast) :
      HasMatch(ast, n) /\ MatchOf(ast, n) \in {NEVER, SOMETIMES, ALWAYS}

(***************************************************************************)
(* C12.  After the inferenceMatchResult pass the match of each node is the *)
(* value the inference table gives for its children: optional and          *)
(* zero_or_more are ALWAYS, simple_not is the negation of its child, a     *)
(* sequence is ALWAYS if all elements are, NEVER if any is NEVER and       *)
(* SOMETIMES otherwise, a choice is ALWAYS if all alternatives are, NEVER  *)
(* if all are NEVER and SOMETIMES otherwise.                               *)
(***************************************************************************)
\* The value of the table for a node, from the match values of its children.
TableValue(grammar, node) ==
  LET kids == Children(node)
      all(v) == \A k \in DOMAIN kids : MatchOf(grammar, kids[k]) = v
      some(v) == \E k \in DOMAIN kids : MatchOf(grammar, kids[k]) = v
  IN CASE node.type \in {"optional", "zero_or_more"} -> ALWAYS
       [] node.type = "simple_not" -> 0 - MatchOf(grammar, node.expression)
       [] node.type = "sequence" ->
            IF all(ALWAYS) THEN ALWAYS ELSE IF some(NEVER) THEN NEVER ELSE SOMETIMES
       [] node.type = "choice" ->
            IF all(ALWAYS) THEN ALWAYS ELSE IF all(NEVER) THEN NEVER ELSE SOMETIMES

TableNodes(grammar) ==
  {n \in ExprNodes(grammar) :
     n.type \in {"optional", "zero_or_more", "simple_not", "sequence", "choice"}}

C12_InferenceTable ==
  PassReturned("inferenceMatchResult") =>
    \A n \in TableNodes(ast) :
      /\ HasMatch(ast, n)
      /\ \A k \in DOMAIN Children(n) : HasMatch(ast, Children(n)[k])
      /\ MatchOf(ast, n) = TableValue(ast, n)

\* The table on the nodes the rule handler has visited.
C12_TableOnVisitedNodes ==
  \A n \in TableNodes(ast) :
    HasMatch(ast, n) =>
      /\ \A k \in DOMAIN Children(n) : HasMatch(ast, Children(n)[k])
      /\ MatchOf(ast, n) = TableValue(ast, n)

(***************************************************************************)
(* C13.  For every grammar of the inference family (mutually recursive     *)
(* rules and simple_not over rule references included) the fixed-point     *)
(* loop of the rule handler stops with an unchanged result after at most 6 *)
(* iterations: `Infinity cycle detected` is never raised.                  *)
(***************************************************************************)
\* The run of the rule handler on the i-th rule of the grammar as parsed.
FreshRun(i) == inferenceRun([ast EXCEPT !.match = << >>], ast.rules[i])

C13_InferenceConverges ==
  /\ thrown = NoThrow
  /\ \A i \in DOMAIN ast.rules :
       LET r == FreshRun(i)
       IN /\ r.st.thrown = NoThrow
          /\ r.st.iterations <= MaxInferenceCount
          /\ inference(ast, ast.rules[i].expression, r.st).value = r.value

\* Rule a = !b was inferred ALWAYS in two iterations of its loop, b
\* referring back to a.
C13_Witness ==
  /\ Len(ast.rules) = 2
  /\ HasMatch(ast, ast.rules[1]) /\ MatchOf(ast, ast.rules[1]) = ALWAYS
  /\ ast.rules[1].expression = Locate(Not(RuleRef("b")), <<1, 1>>)
  /\ \E n \in RuleRefs(ast) : n.name = "a" /\ n.location[1] = 2
  /\ FreshRun(1).st.iterations = 2

(***************************************************************************)
(* The constant pools on their own: the four interning functions applied   *)
(* in any order to the entries the nodes of a grammar give rise to.  The   *)
(* pools are kept in the fields of the Grammar node the pass writes them   *)
(* to.                                                                     *)
(***************************************************************************)
PoolAtoms ==
  {La, Literal("A"), LiteralIC("A"), Class, EmptyClass, AnyChar, SemanticAnd,
   Action(La)}
PoolGrammars ==
  {Grammar(<<Rule("a", Named("n", Choice(<<x, y>>)))>>) :
     x \in PoolAtoms, y \in PoolAtoms}

NodesOfType(grammar, types) == {n \in ExprNodes(grammar) : n.type \in types}

\* The entries generate may intern for the nodes of the grammar.
LiteralCandidates(grammar) ==
  UNION {{n.value, toLowerCase(n.value)} : n \in NodesOfType(grammar, {"literal"})}
ClassCandidates(grammar) == NodesOfType(grammar, {"class"})
ExpectedCandidates(grammar) ==
  {[type |-> "rule", value |-> n.name] : n \in NodesOfType(grammar, {"named"})}
    \cup {[type |-> "literal", value |-> n.value, ignoreCase |-> n.ignoreCase] :
            n \in NodesOfType(grammar, {"literal"})}
    \cup {[type |-> "class", value |-> n.parts, inverted |-> n.inverted,
           ignoreCase |-> n.ignoreCase] : n \in NodesOfType(grammar, {"class"})}
    \cup {[type |-> "any"] : n \in NodesOfType(grammar, {"any"})}
FunctionCandidates(grammar) ==
  {[predicate |-> n.type # "action", params |-> ps, node |-> n] :
     n \in NodesOfType(grammar, {"action", "semantic_and", "semantic_not"}),
     ps \in {<< >>, <<"l">>}}

AddLiteralConst ==
  /\ \E value \in LiteralCandidates(ast) :
       ast' = [ast EXCEPT !.literals = addLiteralConst(ast.literals, value).pool]
  /\ UNCHANGED <<peg, rawOptions, options, session, pc, si, pi, thrown, at>>

AddClassConst ==
  /\ \E node \in ClassCandidates(ast) :
       ast' = [ast EXCEPT !.classes = addClassConst(ast.classes, node).pool]
  /\ UNCHANGED <<peg, rawOptions, options, session, pc, si, pi, thrown, at>>

AddExpectedConst ==
  /\ \E expected \in ExpectedCandidates(ast) :
       ast' = [ast EXCEPT !.expectations =
                 addExpectedConst(ast.expectations, expected).pool]
  /\ UNCHANGED <<peg, rawOptions, options, session, pc, si, pi, thrown, at>>

AddFunctionConst ==
  /\ \E f \in FunctionCandidates(ast) :
       ast' = [ast EXCEPT !.functions =
                 addFunctionConst(ast.functions, f.predicate, f.params, f.node).pool]
  /\ UNCHANGED <<peg, rawOptions, options, session, pc, si, pi, thrown, at>>

NextPools ==
  \/ AddLiteralConst
  \/ AddClassConst
  \/ AddExpectedConst
  \/ AddFunctionConst

InitPools == InitWith(PoolGrammars, {[allowedStartRules |-> Undefined]})
SpecPools == InitPools /\ [][NextPools]_vars

(***************************************************************************)
(* C14.  Each of the four pools holds no two equal entries; interning an   *)
(* entry that is in the pool returns its index and leaves the pool as it   *)
(* is; interning a new entry appends it and returns the previous length;   *)
(* and a step never moves or removes an entry, so that an index keeps      *)
(* denoting the entry it was returned for.                                 *)
(***************************************************************************)
NoDuplicates(pool) ==
  \A i, j \in DOMAIN pool : pool[i] = pool[j] => i = j

\* r is the result of interning entry in pool (indices are 0-based).
Interned(pool, entry, r) ==
  IF \E i \in DOMAIN pool : pool[i] = entry
    THEN r.pool = pool /\ r.index + 1 \in DOMAIN pool /\ pool[r.index + 1] = entry
    ELSE r.pool = Append(pool, entry) /\ r.index = Len(pool)

ClassDesc(n) ==
  [value |-> n.parts, inverted |-> n.inverted, ignoreCase |-> n.ignoreCase]
FunctionDesc(f) ==
  [predicate |-> f.predicate, params |-> f.params, body |-> f.node.code,
   location |-> f.node.codeLocation]

C14_PoolsState ==
  /\ NoDuplicates(ast.literals) /\ NoDuplicates(ast.classes)
  /\ NoDuplicates(ast.expectations) /\ NoDuplicates(ast.functions)
  /\ \A v \in LiteralCandidates(ast) :
       Interned(ast.literals, v, addLiteralConst(ast.literals, v))
  /\ \A n \in ClassCandidates(ast) :
       Interned(ast.classes, ClassDesc(n), addClassConst(ast.classes, n))
  /\ \A e \in ExpectedCandidates(ast) :
       Interned(ast.expectations, e, addExpectedConst(ast.expectations, e))
  /\ \A f \in FunctionCandidates(ast) :
       Interned(ast.functions, FunctionDesc(f),
                addFunctionConst(ast.functions, f.predicate, f.params, f.node))

\* pool is an initial part of pool'.
Extends(old, new) ==
  Len(old) <= Len(new) /\ \A i \in DOMAIN old : new[i] = old[i]

C14_PoolsStep ==
  /\ Extends(ast.literals, ast'.literals)
  /\ Extends(ast.classes, ast'.classes)
  /\ Extends(ast.expectations, ast'.expectations)
  /\ Extends(ast.functions, ast'.functions)

C14_PoolsInterned == []C14_PoolsState /\ [][C14_PoolsStep]_vars

\* The pools hold two entries each where the grammar gives two, and an
\* entry that is in its pool was offered again.
C14_Witness ==
  /\ Len(ast.literals) = 2 /\ Len(ast.expectations) = 3
  /\ Len(ast.functions) = 2
  /\ \E v \in LiteralCandidates(ast) :
       addLiteralConst(ast.literals, v).index = 0
  /\ \E e \in ExpectedCandidates(ast) :
       addExpectedConst(ast.expectations, e).index = 1

(***************************************************************************)
(* Generation family: rule a with a body of every kind of expression and   *)
(* rule b = "a", each grammar with every assignment of a match value to    *)
(* some of the nodes of rule a (a node outside the table has no match      *)
(* property).  compile is given the AST, so the tags are its caller's.     *)
(***************************************************************************)
Pick(e) == Labeled(Null, TRUE, e)
GenerateAtoms ==
  {La, LiteralIC("A"), Le, Class, AnyChar, RuleRef("b"), SemanticAnd, SemanticNot}
GenerateWrapped ==
  {Unary(t, e) : t \in {"text", "simple_and", "simple_not", "optional",
                        "zero_or_more", "one_or_more", "group"},
                 e \in {La, RuleRef("b")}}
    \cup {Named("n", e) : e \in {La, RuleRef("b")}}
    \cup {Action(e) : e \in {La, RuleRef("b"), Sequence(<< >>)}}
    \cup {Labeled("l", FALSE, e) : e \in {La, RuleRef("b")}}
GenerateCompound ==
  {Sequence(<<La, Class>>), Sequence(<<La, AnyChar, RuleRef("b")>>),
   Sequence(<<Pick(La), AnyChar>>), Sequence(<<Labeled("l", FALSE, La), SemanticAnd>>),
   Action(Sequence(<<Labeled("l", FALSE, La), Class>>)),
   Choice(<<La, Class>>), Choice(<<La, AnyChar, RuleRef("b")>>),
   Named("n", Star(La)), Opt(Star(La))}
GenerateBodies == GenerateAtoms \cup GenerateWrapped \cup GenerateCompound

\* The expression nodes of the first rule.
TaggedNodes(grammar) ==
  {n \in ExprNodes(grammar) : n.type # "rule" /\ n.location[1] = 1}
TagTables(grammar) ==
  UNION {[S -> {NEVER, SOMETIMES, ALWAYS}] :
           S \in SUBSET {n.location : n \in TaggedNodes(grammar)}}
GenerateGrammars ==
  UNION {{[g EXCEPT !.match = t] : t \in TagTables(g)} :
           g \in {Grammar(<<Rule("a", x), Rule("b", La)>>) : x \in GenerateBodies}}

InitGenerate == InitWith(GenerateGrammars, {[allowedStartRules |-> Undefined]})
SpecGenerate == InitGenerate /\ [][Next]_vars

(***************************************************************************)
(* Decoding of a bytecode, by the layout of the instructions.  Positions   *)
(* are 1-based; an instruction at ip has a header (the opcode and its      *)
(* operands) and, for a condition or a loop, the bodies that follow it.    *)
(***************************************************************************)
Branch3 == {op_IF, op_IF_ERROR, op_IF_NOT_ERROR, op_MATCH_ANY}
Branch4 == {op_MATCH_STRING, op_MATCH_STRING_IC, op_MATCH_CHAR_CLASS}
Plain0 ==
  {op_PUSH_EMPTY_STRING, op_PUSH_UNDEFINED, op_PUSH_NULL, op_PUSH_FAILED,
   op_PUSH_EMPTY_ARRAY, op_PUSH_CURR_POS, op_POP, op_POP_CURR_POS, op_NIP,
   op_APPEND, op_TEXT, op_UPDATE_SAVED_POS, op_SILENT_FAILS_ON,
   op_SILENT_FAILS_OFF}
Plain1 ==
  {op_POP_N, op_WRAP, op_ACCEPT_N, op_ACCEPT_STRING, op_FAIL,
   op_LOAD_SAVED_POS, op_RULE}

\* The length of the header of the instruction at ip, 0 if there is none.
HeaderLen(code, ip) ==
  LET o == code[ip]
      has(n) == ip + n - 1 <= Len(code)
  IN CASE o \in Plain0 -> 1
       [] o \in Plain1 -> IF has(2) THEN 2 ELSE 0
       [] o = op_WHILE_NOT_ERROR -> IF has(2) THEN 2 ELSE 0
       [] o \in Branch3 -> IF has(3) THEN 3 ELSE 0
       [] o \in Branch4 -> IF has(4) THEN 4 ELSE 0
       [] o = op_PLUCK ->
            IF has(3) /\ code[ip + 2] >= 0 /\ has(3 + code[ip + 2])
              THEN 3 + code[ip + 2] ELSE 0
       [] o = op_CALL ->
            IF has(4) /\ code[ip + 3] >= 0 /\ has(4 + code[ip + 3])
              THEN 4 + code[ip + 3] ELSE 0
       [] OTHER -> 0

\* The encoded lengths of the bodies of the instruction at ip.
BodyLens(code, ip) ==
  LET o == code[ip]
  IN CASE o \in Branch3 -> <<code[ip + 1], code[ip + 2]>>
       [] o \in Branch4 -> <<code[ip + 2], code[ip + 3]>>
       [] o = op_WHILE_NOT_ERROR -> <<code[ip + 1]>>
       [] OTHER -> << >>

Sum(lens) ==
  IF Len(lens) = 0 THEN 0
  ELSE IF Len(lens) = 1 THEN lens[1] ELSE lens[1] + lens[2]

\* code[lo .. hi - 1] is a sequence of whole instructions, each body of a
\* condition or loop being such a sequence too.
RECURSIVE WellNested(_, _, _)
WellNested(code, lo, hi) ==
  IF lo = hi THEN TRUE
  ELSE IF lo > hi THEN FALSE
  ELSE LET h == HeaderLen(code, lo)
           lens == BodyLens(code, lo)
           t == IF Len(lens) > 0 THEN lens[1] ELSE 0
           next == lo + h + Sum(lens)
       IN /\ h > 0
          /\ \A k \in DOMAIN lens : lens[k] >= 0
          /\ next <= hi
          /\ Len(lens) > 0 => WellNested(code, lo + h, lo + h + t)
          /\ Len(lens) > 1 => WellNested(code, lo + h + t, next)
          /\ WellNested(code, next, hi)

\* The positions of the instructions of a well-nested code[lo .. hi - 1],
\* those of the bodies included.
RECURSIVE Starts(_, _, _)
Starts(code, lo, hi) ==
  IF lo >= hi THEN {}
  ELSE LET h == HeaderLen(code, lo)
           next == lo + h + Sum(BodyLens(code, lo))
       IN {lo} \cup Starts(code, lo + h, next) \cup Starts(code, next, hi)

Bytecodes(grammar) == {grammar.rules[i].bytecode : i \in DOMAIN grammar.rules}

(***************************************************************************)
(* C15.  In the bytecode of every rule the lengths a condition encodes are *)
(* the lengths of the then and else code inlined after them, and the       *)
(* length a loop encodes is the length of its body, whatever match values  *)
(* (ALWAYS, SOMETIMES, NEVER or none) the nodes carry: each bytecode is a  *)
(* well-nested sequence of instructions, and a condition or loop built     *)
(* over any two of the generated codes has them behind their lengths.      *)
(***************************************************************************)
\* code is cond, the lengths of the bodies, and the bodies.
Encodes(code, cond, bodies) ==
  LET lens == [k \in DOMAIN bodies |-> Len(bodies[k])]
      flat == IF Len(bodies) = 1 THEN bodies[1] ELSE bodies[1] \o bodies[2]
  IN code = cond \o lens \o flat

C15_BranchLengths ==
  PassReturned("generateBytecode") =>
    /\ \A code \in Bytecodes(ast) : WellNested(code, 1, Len(code) + 1)
    /\ \A t, f \in Bytecodes(ast) \cup {<< >>} :
         /\ \A o \in Branch3 :
              Encodes(buildCondition(SOMETIMES, <<o>>, t, f), <<o>>, <<t, f>>)
         /\ \A o \in Branch4 :
              Encodes(buildCondition(SOMETIMES, <<o, 0>>, t, f), <<o, 0>>, <<t, f>>)
         /\ Encodes(buildLoop(<<op_WHILE_NOT_ERROR>>, t), <<op_WHILE_NOT_ERROR>>, <<t>>)
         /\ buildCondition(ALWAYS, <<op_IF>>, t, f) = t
         /\ buildCondition(NEVER, <<op_IF>>, t, f) = f

\* A rule whose nodes carry ALWAYS and NEVER has a bytecode with a condition
\* with two bodies inside the then code of another condition.
C15_Witness ==
  /\ PassReturned("generateBytecode")
  /\ \E l1, l2 \in DOMAIN ast.match :
       ast.match[l1] = ALWAYS /\ ast.match[l2] = NEVER
  /\ LET code == ast.rules[1].bytecode
     IN \E i, j \in Starts(code, 1, Len(code) + 1) :
          /\ code[i] = op_IF_NOT_ERROR /\ code[j] \in Branch3 \cup Branch4
          /\ i + 3 <= j /\ j < i + 3 + code[i + 1]
          /\ \A k \in DOMAIN BodyLens(code, j) : BodyLens(code, j)[k] > 0

(***************************************************************************)
(* C16.  Once generateBytecode has returned (the grammar has passed the    *)
(* check and transform stages), the bytecode of every rule is a non-empty  *)
(* well-nested sequence of non-negative integers (the null of an index     *)
(* that was not computed and the -1 of a rule that was not found are never *)
(* emitted, whatever the match values), every RULE operand is the index of *)
(* a rule, and every MATCH_STRING, MATCH_STRING_IC, ACCEPT_STRING,         *)
(* MATCH_CHAR_CLASS, FAIL and CALL operand is an index into the pool of    *)
(* its kind written on the grammar.                                        *)
(***************************************************************************)
\* The pool the first operand of the opcode indexes: its length.
PoolSize(grammar, o) ==
  CASE o = op_RULE -> Len(grammar.rules)
    [] o \in {op_MATCH_STRING, op_MATCH_STRING_IC, op_ACCEPT_STRING} ->
         Len(grammar.literals)
    [] o = op_MATCH_CHAR_CLASS -> Len(grammar.classes)
    [] o = op_FAIL -> Len(grammar.expectations)
    [] o = op_CALL -> Len(grammar.functions)

Indexing ==
  {op_RULE, op_MATCH_STRING, op_MATCH_STRING_IC, op_ACCEPT_STRING,
   op_MATCH_CHAR_CLASS, op_FAIL, op_CALL}

ValidBytecode(grammar, code) ==
  /\ Len(code) > 0
  /\ \A k \in DOMAIN code : code[k] >= 0
  /\ WellNested(code, 1, Len(code) + 1)
  /\ \A ip \in Starts(code, 1, Len(code) + 1) :
       code[ip] \in Indexing => code[ip + 1] < PoolSize(grammar, code[ip])

C16_OperandsValid ==
  PassReturned("generateBytecode") =>
    \A code \in Bytecodes(ast) : ValidBytecode(ast, code)

\* A rule with an action over a sequence tagged NEVER and a literal tagged
\* ALWAYS (indices that are not computed) has its bytecode, with a CALL.
C16_Witness ==
  /\ PassReturned("generateBytecode")
  /\ \E l1, l2 \in DOMAIN ast.match :
       ast.match[l1] = ALWAYS /\ ast.match[l2] = NEVER
  /\ ast.rules[1].expression.type = "action"
  /\ LET code == ast.rules[1].bytecode
     IN \E i \in Starts(code, 1, Len(code) + 1) : code[i] = op_CALL
  /\ Len(ast.functions) > 0 /\ Len(ast.expectations) > 0

(***************************************************************************)
(* C17.  A stack simulator that follows the documented effect of each      *)
(* opcode through the bytecode of a rule, taking either branch of every    *)
(* condition and running every loop body any number of times, ends with    *)
(* exactly one more value on the stack than it started with: for every     *)
(* kind of expression, on the paths where it matches and on those where it *)
(* fails.                                                                  *)
(***************************************************************************)
\* The change of the stack height by the instruction at ip, bodies apart.
Effect(code, ip) ==
  LET o == code[ip]
  IN CASE o \in {op_PUSH_EMPTY_STRING, op_PUSH_UNDEFINED, op_PUSH_NULL,
                 op_PUSH_FAILED, op_PUSH_EMPTY_ARRAY, op_PUSH_CURR_POS,
                 op_ACCEPT_N, op_ACCEPT_STRING, op_FAIL, op_RULE} -> 1
       [] o \in {op_POP, op_POP_CURR_POS, op_NIP, op_APPEND} -> 0 - 1
       [] o = op_POP_N -> 0 - code[ip + 1]
       [] o = op_WRAP -> 1 - code[ip + 1]
       [] o = op_PLUCK -> 1 - code[ip + 1]
       [] o = op_CALL -> 1 - code[ip + 2]
       [] OTHER -> 0

\* The changes of the stack height over the runs of code[lo .. hi - 1].  A
\* loop body runs no, one or two times.
RECURSIVE Effects(_, _, _)
Effects(code, lo, hi) ==
  IF lo >= hi THEN {0}
  ELSE LET h == HeaderLen(code, lo)
           lens == BodyLens(code, lo)
           t == IF Len(lens) > 0 THEN lens[1] ELSE 0
           next == lo + h + Sum(lens)
           here ==
             IF Len(lens) = 2
               THEN Effects(code, lo + h, lo + h + t)
                      \cup Effects(code, lo + h + t, next)
             ELSE IF Len(lens) = 1
               THEN {k * d : k \in 0..2, d \in Effects(code, lo + h, next)}
             ELSE {Effect(code, lo)}
       IN {a + b : a \in here, b \in Effects(code, next, hi)}

C17_StackDiscipline ==
  PassReturned("generateBytecode") =>
    \A code \in Bytecodes(ast) : Effects(code, 1, Len(code) + 1) = {1}

\* The same for the grammars without a named node.
C17_Unnamed ==
  (PassReturned("generateBytecode")
     /\ \A n \in ExprNodes(ast) : n.type # "named") =>
    \A code \in Bytecodes(ast) : Effects(code, 1, Len(code) + 1) = {1}

(***************************************************************************)
(* The session on its own: a holder of a new Session sets its stage to the *)
(* stages in their order, as the driver does, and calls error, warning,    *)
(* info and checkErrors in any order, before the first stage too.  thrown  *)
(* is what the last call threw; at becomes "unstaged" once a report was    *)
(* made while no stage was set; si is the next stage.                      *)
(***************************************************************************)
\* Largest number of problems and of errors of a session.
MaxReports == 3

\* The reports: a message with its location.
SessionReports ==
  {[message |-> "m1", location |-> <<1>>], [message |-> "m2", location |-> <<2>>]}

CanReport ==
  Len(session.problems) < MaxReports /\ session.errors < MaxReports
Unstaged == IF session.stage = Null THEN "unstaged" ELSE at

\* session.stage = stage
SetStage ==
  /\ si <= Len(Stages)
  /\ session' = [session EXCEPT !.stage = Stages[si].name]
  /\ si' = si + 1
  /\ thrown' = NoThrow
  /\ UNCHANGED <<peg, ast, rawOptions, options, pc, pi, at>>

CallError ==
  /\ CanReport
  /\ \E p \in SessionReports :
       LET r == SessionError(session, p.message, p.location, << >>)
       IN session' = r.session /\ thrown' = r.thrown
  /\ at' = Unstaged
  /\ UNCHANGED <<peg, ast, rawOptions, options, pc, si, pi>>

CallWarning ==
  /\ CanReport
  /\ \E p \in SessionReports :
       LET r == SessionWarning(session, p.message, p.location, << >>)
       IN session' = r.session /\ thrown' = r.thrown
  /\ at' = Unstaged
  /\ UNCHANGED <<peg, ast, rawOptions, options, pc, si, pi>>

CallInfo ==
  /\ CanReport
  /\ \E p \in SessionReports :
       LET r == SessionInfo(session, p.message, p.location, << >>)
       IN session' = r.session /\ thrown' = r.thrown
  /\ at' = Unstaged
  /\ UNCHANGED <<peg, ast, rawOptions, options, pc, si, pi>>

CallCheckErrors ==
  /\ thrown' = checkErrors(session)
  /\ UNCHANGED <<peg, ast, rawOptions, options, session, pc, si, pi, at>>

NextSession ==
  \/ SetStage
  \/ CallError
  \/ CallWarning
  \/ CallInfo
  \/ CallCheckErrors

InitSession ==
  InitWith({Grammar(<<Rule("a", La)>>)}, {[allowedStartRules |-> Undefined]})
SpecSession == InitSession /\ [][NextSession]_vars

(***************************************************************************)
(* C18.  After any sequence of error, warning and info reports that were   *)
(* all made with a stage set, checkErrors throws if and only if an error   *)
(* was reported; what it throws has the message and the location of the    *)
(* first error reported and the stage the session had at that report (the  *)
(* stage of the session, when all errors were reported in it), and its     *)
(* problems are all the problems reported so far, of every severity, in    *)
(* the order of the reports.                                               *)
(***************************************************************************)
ErrorEntries(s) ==
  {i \in DOMAIN s.problems : s.problems[i].severity = "error"}
FirstErrorEntry(s) ==
  CHOOSE i \in ErrorEntries(s) : \A j \in ErrorEntries(s) : i <= j

\* The reports as the callbacks saw them.
Reported(s) ==
  [i \in DOMAIN s.callbacks |->
     [severity |-> s.callbacks[i].severity, message |-> s.callbacks[i].message]]
Recorded(ps) ==
  [i \in DOMAIN ps |-> [severity |-> ps[i].severity, message |-> ps[i].message]]

C18_CheckErrorsRaises ==
  at # "unstaged" =>
    /\ (checkErrors(session) # NoThrow) <=> (ErrorEntries(session) # {})
    /\ checkErrors(session) # NoThrow =>
         LET e == GrammarErrorOf(session)
             i == FirstErrorEntry(session)
         IN /\ checkErrors(session) = Throw("GrammarError", e.message)
            /\ e.message = session.problems[i].message
            /\ e.location = session.problems[i].location
            /\ e.stage = session.callbacks[i].stage
            /\ (\A j \in ErrorEntries(session) :
                  session.callbacks[j].stage = session.stage)
                 => e.stage = session.stage
            /\ Recorded(e.problems) = Reported(session)

\* checkErrors has thrown the first of two different errors, reported in
\* the stage check after a warning.
C18_Witness ==
  /\ at # "unstaged"
  /\ thrown = Throw("GrammarError", "m2")
  /\ session.stage = "check"
  /\ Recorded(session.problems) =
       <<[severity |-> "warning", message |-> "m1"],
         [severity |-> "error", message |-> "m2"],
         [severity |-> "error", message |-> "m1"]>>
  /\ GrammarErrorOf(session).problems = session.problems

(***************************************************************************)
(* C19.  In every state of a session the error count is the number of      *)
(* problems of severity error; and every report has invoked the callback   *)
(* of its severity once, with the stage of the session: the callbacks      *)
(* invoked are the problems recorded, one for one.                         *)
(***************************************************************************)
C19_ErrorCount ==
  /\ session.errors = Cardinality(ErrorEntries(session))
  /\ Recorded(session.problems) = Reported(session)

\* The same, for the sessions whose reports were all made with a stage set.
C19_Staged ==
  at # "unstaged" => C19_ErrorCount

\* A warning or an info made with a stage set adds one problem of its
\* severity and one callback with the stage, and leaves the error count.
C19_StagedSteps ==
  [][(at' # "unstaged" /\ (CallWarning \/ CallInfo)) =>
       /\ session'.errors = session.errors
       /\ Len(session'.problems) = Len(session.problems) + 1
       /\ session'.problems[Len(session'.problems)].severity \in {"warning", "info"}
       /\ Len(session'.callbacks) = Len(session.callbacks) + 1
       /\ session'.callbacks[Len(session'.callbacks)].stage = session.stage]_vars

(***************************************************************************)
(* C20.  compile settles allowedStartRules before any pass runs: absent,   *)
(* it is the list of the name of the first rule (an Error for a grammar    *)
(* without rules); holding "*", it is the list of all rule names; and      *)
(* otherwise a name in it that is no rule name raises Unknown start rule,  *)
(* with no pass run, no callback invoked and the AST as it was.            *)
(***************************************************************************)
AllRules(grammar) == [i \in DOMAIN grammar.rules |-> grammar.rules[i].name]
Given == rawOptions.allowedStartRules[1]
UnknownStartRules ==
  {k \in DOMAIN Given : \A i \in DOMAIN ast.rules : ast.rules[i].name # Given[k]}

C20_Validated ==
  /\ ast' = ast
  /\ session'.problems = << >> /\ session'.callbacks = << >>
  /\ IF rawOptions.allowedStartRules = Undefined
       THEN IF Len(ast.rules) = 0
              THEN /\ pc' = "thrown"
                   /\ thrown' = Throw("Error", <<"Must have at least one start rule">>)
              ELSE /\ pc' = "stage" /\ thrown' = NoThrow
                   /\ options'.allowedStartRules = <<ast.rules[1].name>>
     ELSE IF \E k \in DOMAIN Given : Given[k] = "*"
       THEN /\ pc' = "stage" /\ thrown' = NoThrow
            /\ options'.allowedStartRules = AllRules(ast)
     ELSE IF UnknownStartRules # {}
       THEN /\ pc' = "thrown"
            /\ \E k \in UnknownStartRules :
                 thrown' = Throw("Error", <<"Unknown start rule \"", Given[k], "\"">>)
       ELSE /\ pc' = "stage" /\ thrown' = NoThrow
            /\ options'.allowedStartRules = Given

C20_StartRulesValidated ==
  /\ [](pc = "compile" => session = NewSession)
  /\ [][Compile => C20_Validated]_vars

\* compile has thrown for the start rules a and c of a grammar with the
\* rules a and b.
C20_Witness ==
  /\ pc = "thrown" /\ at = "compile"
  /\ thrown = Throw("Error", <<"Unknown start rule \"", "c", "\"">>)
  /\ rawOptions.allowedStartRules = <<<<"a", "c">>>>
  /\ AllRules(ast) = <<"a", "b">>
  /\ session = NewSession

(***************************************************************************)
(* Calls of generate (lib/peg.ts), one after the other, each with its list *)
(* of plugins.  pc is "generate" between the calls, "plugins" in the loop  *)
(* over the plugins and "parsed" when the grammar has been parsed.  trace  *)
(* is what the call has done so far; ran is the lists of passes the last   *)
(* call handed to compile.  An array no object refers to any more is       *)
(* dropped from the heap when the call returns.                            *)
(***************************************************************************)
\* Largest number of plugins of a call.
MaxPlugins == 2

PluginLists == SeqsOver(Plugins, 0, MaxPlugins)

\* const config = {parser, passes: copyPasses(compiler.passes),
\*                 reservedWords: RESERVED_WORDS.slice()}
GenerateCall ==
  /\ pc = "generate"
  /\ \E plugins \in PluginLists :
       LET c == copyPasses(peg.heap, CompilerPasses)
           w == slice(c.heap, ReservedWordsAt)
       IN peg' = [heap |-> w.heap,
                  config |-> <<[passes |-> c.copy, reservedWords |-> w.copy]>>,
                  plugins |-> plugins, k |-> 1, trace |-> << >>,
                  ran |-> Undefined]
  /\ pc' = "plugins"
  /\ UNCHANGED <<ast, rawOptions, options, session, si, pi, thrown, at>>

\* plugin.use(config, options) for the next plugin of the list.
UsePlugin ==
  /\ pc = "plugins" /\ peg.k <= Len(peg.plugins)
  /\ LET r == use(peg.plugins[peg.k], peg.config[1], peg.heap)
     IN peg' = [peg EXCEPT !.heap = r.heap, !.config = <<r.config>>,
                           !.k = @ + 1,
                           !.trace = Append(@, [event |-> "use", plugin |-> peg.k])]
  /\ UNCHANGED <<ast, rawOptions, options, session, pc, si, pi, thrown, at>>

\* config.parser.parse(grammar, {grammarSource, reservedWords})
Parse ==
  /\ pc = "plugins" /\ peg.k > Len(peg.plugins)
  /\ peg' = [peg EXCEPT !.trace =
               Append(@, [event |-> "parse",
                          reservedWords |-> peg.heap[peg.config[1].reservedWords]])]
  /\ pc' = "parsed"
  /\ UNCHANGED <<ast, rawOptions, options, session, si, pi, thrown, at>>

\* compiler.compile(ast, config.passes, options), and the return.
CompileCall ==
  /\ pc = "parsed"
  /\ peg' = [peg EXCEPT
               !.ran = <<[i \in DOMAIN StageKeys |->
                            [name |-> StageKeys[i],
                             passes |-> peg.heap[peg.config[1].passes[StageKeys[i]]]]]>>,
               !.trace = Append(@, [event |-> "compile"]),
               !.config = Undefined,
               !.heap = SubSeq(@, 1, Len(ModuleHeap))]
  /\ pc' = "generate"
  /\ UNCHANGED <<ast, rawOptions, options, session, si, pi, thrown, at>>

NextGenerate ==
  \/ GenerateCall
  \/ UsePlugin
  \/ Parse
  \/ CompileCall

InitGenerateCalls ==
  /\ peg = NoGenerate
  /\ ast = Grammar(<<Rule("a", La)>>)
  /\ rawOptions = [allowedStartRules |-> Undefined]
  /\ options = NoOptions
  /\ session = NewSession
  /\ pc = "generate"
  /\ si = 1
  /\ pi = 1
  /\ thrown = NoThrow
  /\ at = ""
SpecGenerateCalls == InitGenerateCalls /\ [][NextGenerate]_vars

(***************************************************************************)
(* C21.  Every call of generate works on its own copies: whatever passes   *)
(* and words the plugins of the calls so far have added, removed or        *)
(* replaced in config.passes and config.reservedWords, the lists of        *)
(* compiler.passes and RESERVED_WORDS are what they were, and a call       *)
(* without plugins hands the default passes to compile and the default     *)
(* words to the parser; the plugins of a call are used in the order of the *)
(* list, all of them before the grammar is parsed.                         *)
(***************************************************************************)
\* What a call with n plugins does, in order.
TraceEvents(n) ==
  [i \in 1..(n + 2) |-> IF i <= n THEN "use" ELSE IF i = n + 1 THEN "parse"
                                                 ELSE "compile"]

C21_OwnCopies ==
  /\ \A i \in DOMAIN Stages : peg.heap[CompilerPasses[Stages[i].name]] = Stages[i].passes
  /\ peg.heap[ReservedWordsAt] = RESERVED_WORDS
  /\ (peg.ran # Undefined /\ peg.plugins = << >>) =>
       /\ peg.ran[1] = Stages
       /\ peg.trace[1].reservedWords = RESERVED_WORDS
  /\ LET expected == TraceEvents(Len(peg.plugins))
     IN /\ Len(peg.trace) <= Len(expected)
        /\ \A i \in DOMAIN peg.trace :
             /\ peg.trace[i].event = expected[i]
             /\ peg.trace[i].event = "use" => peg.trace[i].plugin = i
  /\ peg.ran # Undefined => Len(peg.trace) = Len(peg.plugins) + 2

\* A call with a plugin that pushes a pass to the stage check and one that
\* removes the first reserved word has returned: compile was given the
\* added pass and the parser the shortened list.
C21_Witness ==
  /\ pc = "generate" /\ peg.ran # Undefined
  /\ peg.plugins = <<[op |-> "push", stage |-> "check"],
                     [op |-> "shiftWord", stage |-> ""]>>
  /\ peg.ran[1][1].passes = Append(Stages[1].passes, "plugin")
  /\ peg.trace[3].reservedWords = Tail(RESERVED_WORDS)

(***************************************************************************)
(* C22.  The two arrays of reportInfiniteRecursion follow the path of the  *)
(* visit: every push is undone by a pop, so that visitedRules and          *)
(* backtraceRefs are empty when the visit of the rules of the grammar has  *)
(* returned, also when a left recursion was reported on the way.           *)
(***************************************************************************)
C22_StacksBalanced ==
  AtPass("reportInfiniteRecursion") =>
    LET st == infiniteRecursionRun(ast, session)
    IN st.thrown = NoThrow =>
         st.visitedRules = << >> /\ st.backtraceRefs = << >>

\* The same for the grammars in which the pass reports nothing.
C22_BalancedWithoutReport ==
  AtPass("reportInfiniteRecursion") =>
    LET st == infiniteRecursionRun(ast, session)
    IN (st.thrown = NoThrow /\ st.session.errors = session.errors) =>
         st.visitedRules = << >> /\ st.backtraceRefs = << >>

(***************************************************************************)
(* C23.  Every error `Label "L" is already defined` has one note, and the  *)
(* location of the note is that of the original binding of L: the first    *)
(* of the bindings of L that are in scope at the label reported, also when *)
(* L is bound three times in one sequence.                                 *)
(***************************************************************************)
\* The bindings of the label of n that are in scope at n.
BindingsInScope(grammar, n) ==
  {m \in LabeledOccurrences(grammar) :
     m.node.label = n.node.label /\ BoundBefore(m, n)}
OriginalBindings(grammar, n) ==
  {m \in BindingsInScope(grammar, n) :
     \A m2 \in BindingsInScope(grammar, n) : ~BoundBefore(m2, m)}

\* The errors of the pass, each with the labeled node it is reported at.
DuplicateReports ==
  {r \in [error : Range(ErrorsOf("reportDuplicateLabels")),
          at : LabeledOccurrences(ast)] :
     r.at.node.labelLocation = r.error.location}

C23_OriginalBinding ==
  (si = 1 /\ PassReturned("reportDuplicateLabels")) =>
    \A r \in DuplicateReports :
      /\ Len(r.error.notes) = 1
      /\ \E m \in OriginalBindings(ast, r.at) :
           r.error.notes[1].location = m.node.labelLocation

\* The note points at a binding of the label that is in scope.
C23_BindingInScope ==
  (si = 1 /\ PassReturned("reportDuplicateLabels")) =>
    \A r \in DuplicateReports :
      /\ Len(r.error.notes) = 1
      /\ \E m \in BindingsInScope(ast, r.at) :
           r.error.notes[1].location = m.node.labelLocation

(***************************************************************************)
(* C24.  removeProxyRules removes exactly the rules whose body is a single *)
(* rule_ref and whose name is not in allowedStartRules: the rules left are *)
(* the other rules of the grammar, in their original relative order, for   *)
(* any number and position of proxies (adjacent, first, last).             *)
(***************************************************************************)
IsRemovableProxy(rule) ==
  /\ rule.type = "rule"
  /\ rule.expression.type = "rule_ref"
  /\ ~\E k \in DOMAIN options.allowedStartRules :
        options.allowedStartRules[k] = rule.name
RulesToKeep == SelectSeq(ast.rules, LAMBDA r : ~IsRemovableProxy(r))

\* The rules in the order they have, each named by its name and by the
\* place it had in the grammar as it was parsed.
RuleIdentities(rules) ==
  [i \in DOMAIN rules |-> <<rules[i].name, rules[i].location>>]

C24_ExactlyProxiesRemoved ==
  [][(AtPass("removeProxyRules") /\ thrown' = NoThrow)
       => RuleIdentities(ast'.rules) = RuleIdentities(RulesToKeep)]_vars

\* The first two rules were adjacent proxies and were removed: the rule
\* left is the third of the grammar.
C24_Witness ==
  /\ PassReturned("removeProxyRules")
  /\ Len(ast.rules) = 1
  /\ ast.rules[1].location = <<3>>

(***************************************************************************)
(* C25.  The bytecode of a choice is the code of its first alternative     *)
(* when that alternative has match ALWAYS; otherwise it is the code of the *)
(* first alternative followed by IF_ERROR { POP; rest }, where rest is     *)
(* built in the same way from the alternatives after it.  As stated for    *)
(* the first alternative only (the code of every alternative is present    *)
(* unless the first one is ALWAYS) the property fails when an alternative  *)
(* in the middle has match ALWAYS: the alternatives after it are dropped.  *)
(***************************************************************************)
\* The pools the pass has left on the grammar: interning in them changes
\* nothing and returns the index the pass has used.
PoolsOf(grammar) ==
  [literals |-> grammar.literals, classes |-> grammar.classes,
   expectations |-> grammar.expectations, functions |-> grammar.functions,
   thrown |-> NoThrow]

\* The code of alternative i of the choice that is the body of a rule.
AlternativeCode(choice, i) ==
  generate(ast, choice.alternatives[i], Ctx(0 - 1, << >>, FALSE, << >>, Undefined),
           PoolsOf(ast)).code

Guard(rest) == <<op_IF_ERROR, Len(rest) + 1, 0, op_POP>> \o rest

\* Every alternative from i on, each but the first behind a guard.
RECURSIVE AllGuarded(_, _)
AllGuarded(choice, i) ==
  IF i >= Len(choice.alternatives) THEN AlternativeCode(choice, i)
  ELSE AlternativeCode(choice, i) \o Guard(AllGuarded(choice, i + 1))

\* The alternatives from i on up to the first that has match ALWAYS.
RECURSIVE GuardedUntilAlways(_, _)
GuardedUntilAlways(choice, i) ==
  IF i >= Len(choice.alternatives) \/ MatchTag(ast, choice.alternatives[i]) = ALWAYS
    THEN AlternativeCode(choice, i)
    ELSE AlternativeCode(choice, i) \o Guard(GuardedUntilAlways(choice, i + 1))

ChoiceRules ==
  {i \in DOMAIN ast.rules : ast.rules[i].expression.type = "choice"}

\* C25 as it is stated: only an ALWAYS first alternative drops the others.
C25_EveryAlternativePresent ==
  PassReturned("generateBytecode") =>
    \A i \in ChoiceRules :
      LET choice == ast.rules[i].expression
      IN ast.rules[i].bytecode =
           IF MatchTag(ast, choice.alternatives[1]) = ALWAYS
             THEN AlternativeCode(choice, 1)
             ELSE AllGuarded(choice, 1)

\* C25 amended: the chain of guarded alternatives ends at the first
\* alternative that has match ALWAYS, wherever it stands.
C25_ChoiceCode ==
  PassReturned("generateBytecode") =>
    \A i \in ChoiceRules :
      ast.rules[i].bytecode = GuardedUntilAlways(ast.rules[i].expression, 1)

\* A choice of three alternatives was generated whose second alternative
\* has match ALWAYS and whose first has not.
C25_Witness ==
  /\ PassReturned("generateBytecode")
  /\ \E i \in ChoiceRules :
       LET alternatives == ast.rules[i].expression.alternatives
       IN /\ Len(alternatives) = 3
          /\ MatchTag(ast, alternatives[1]) # ALWAYS
          /\ MatchTag(ast, alternatives[2]) = ALWAYS

(***************************************************************************)
(* Grammars with labels, picks, actions and semantic predicates in nested  *)
(* scopes, as the parser builds them: the operand of a label is a primary, *)
(* and a group holds a sequence or a labeled expression.  Each labeled     *)
(* literal has a value of its own, by which its result is told on the      *)
(* stack.                                                                  *)
(***************************************************************************)
LabelX == Labeled("x", FALSE, Literal("x"))
LabelX2 == Labeled("x", FALSE, Literal("x2"))
LabelY == Labeled("y", FALSE, Literal("y"))
LabelZ == Labeled("z", FALSE, Literal("z"))
PickP == Labeled(Null, TRUE, Literal("p"))
PickQ == Labeled("q", TRUE, Literal("q"))

CallItems == {La, LabelX, LabelY, PickP, PickQ, SemanticAnd}
CallFlat == {Sequence(es) : es \in SeqsOver(CallItems, 1, MaxElems)}
CallActions ==
  {Action(Sequence(es)) : es \in SeqsOver({La, LabelX, LabelY, SemanticNot}, 0, 2)}
    \cup {Action(LabelX), Action(La)}
\* An operand with a scope of its own that holds a label and a predicate.
CallInner ==
  {Group(Sequence(<<LabelY, e>>)) : e \in {SemanticAnd, LabelX2, LabelZ}}
    \cup {Action(Sequence(<<LabelY, e>>)) : e \in {La, LabelZ}}
    \cup {Group(LabelY), Group(LabelX2)}
CallScoped ==
  CallInner
    \cup {Unary(t, e) : t \in {"optional", "zero_or_more", "one_or_more", "text",
                              "simple_and", "simple_not"},
                        e \in {Group(Sequence(<<LabelY, SemanticAnd>>)), Group(LabelY)}}
    \cup {Labeled("z", FALSE, e) :
            e \in {Group(Sequence(<<LabelY, SemanticAnd>>)),
                   Group(Sequence(<<PickP, LabelY>>))}}
    \cup {Choice(<<Sequence(<<LabelY, SemanticAnd>>), e>>) :
            e \in {Sequence(<<LabelX2, SemanticNot>>), Action(LabelZ),
                   Sequence(<<LabelZ, SemanticNot>>)}}
CallNested ==
  {Sequence(<<x, e, t>>) :
     x \in {LabelX, La}, e \in CallScoped, t \in {SemanticAnd, LabelY, PickP}}
    \cup {Action(Sequence(<<LabelX, e>>)) : e \in CallScoped}
    \cup {Choice(<<x, y>>) :
            x \in {Sequence(<<LabelX, SemanticAnd>>), Action(LabelX)},
            y \in {Sequence(<<LabelX2, SemanticNot>>), Action(Sequence(<<LabelY, La>>)),
                   Sequence(<<LabelY, SemanticNot>>)}}
CallBodies == CallFlat \cup CallActions \cup CallNested
CallGrammars == {Grammar(<<Rule("a", x)>>) : x \in CallBodies}

InitCalls == InitWith(CallGrammars, {[allowedStartRules |-> Undefined]})
SpecCalls == InitCalls /\ [][Next]_vars

(***************************************************************************)
(* The runs of a bytecode on a stack of slots, by the documented effect of *)
(* the instructions.  A slot is [at, failed]: the position of the          *)
(* instruction that pushed it and whether it holds FAILED.  A run is       *)
(* [stack, seen]: seen holds, for each CALL and PLUCK the run has          *)
(* executed, its position and the stack it found.  IF_ERROR and            *)
(* IF_NOT_ERROR follow the top of the stack, a match and IF take either    *)
(* branch, and the result of RULE is FAILED or not.                        *)
(***************************************************************************)
Slot(ip, failed) == [at |-> ip, failed |-> failed]
Top(stack) == stack[Len(stack)]
DropN(stack, n) ==
  IF n >= Len(stack) THEN << >> ELSE SubSeq(stack, 1, Len(stack) - n)

\* The stacks an instruction without bodies leaves.
StepStacks(code, ip, stack) ==
  LET o == code[ip]
  IN CASE o \in {op_PUSH_EMPTY_STRING, op_PUSH_UNDEFINED, op_PUSH_NULL,
                 op_PUSH_EMPTY_ARRAY, op_PUSH_CURR_POS, op_ACCEPT_N,
                 op_ACCEPT_STRING} -> {Append(stack, Slot(ip, FALSE))}
       [] o \in {op_PUSH_FAILED, op_FAIL} -> {Append(stack, Slot(ip, TRUE))}
       [] o = op_RULE -> {Append(stack, Slot(ip, f)) : f \in BOOLEAN}
       [] o \in {op_POP, op_POP_CURR_POS, op_APPEND} -> {DropN(stack, 1)}
       [] o = op_POP_N -> {DropN(stack, code[ip + 1])}
       [] o = op_NIP ->
            {IF stack = << >> THEN stack ELSE Append(DropN(stack, 2), Top(stack))}
       [] o = op_TEXT -> {Append(DropN(stack, 1), Slot(ip, FALSE))}
       [] o \in {op_WRAP, op_PLUCK} ->
            {Append(DropN(stack, code[ip + 1]), Slot(ip, FALSE))}
       [] o = op_CALL -> {Append(DropN(stack, code[ip + 2]), Slot(ip, FALSE))}
       [] OTHER -> {stack}

Observed(code, ip, run) ==
  IF code[ip] \in {op_CALL, op_PLUCK}
    THEN run.seen \cup {[at |-> ip, stack |-> run.stack]}
    ELSE run.seen

RECURSIVE Runs(_, _, _, _)
Runs(code, lo, hi, run) ==
  IF lo >= hi THEN {run}
  ELSE LET o == code[lo]
           h == HeaderLen(code, lo)
           lens == BodyLens(code, lo)
           t == IF Len(lens) > 0 THEN lens[1] ELSE 0
           next == lo + h + Sum(lens)
           failed == run.stack # << >> /\ Top(run.stack).failed
           then == Runs(code, lo + h, lo + h + t, run)
           else == Runs(code, lo + h + t, next, run)
           after ==
             IF Len(lens) = 2
               THEN CASE o = op_IF_ERROR -> IF failed THEN then ELSE else
                      [] o = op_IF_NOT_ERROR -> IF failed THEN else ELSE then
                      [] OTHER -> then \cup else
             ELSE IF Len(lens) = 1
               THEN IF failed THEN {run}
                    ELSE {r \in then : r.stack # << >> /\ Top(r.stack).failed}
             ELSE {[stack |-> st, seen |-> Observed(code, lo, run)] :
                     st \in StepStacks(code, lo, run.stack)}
       IN UNION {Runs(code, next, hi, r) : r \in after}

\* What the CALL and PLUCK instructions of a rule's bytecode find.
Sightings(code) ==
  UNION {r.seen : r \in Runs(code, 1, Len(code) + 1, [stack |-> << >>, seen |-> {}])}

(***************************************************************************)
(* C26.  For every CALL emitted for an action or a semantic predicate and  *)
(* every PLUCK emitted for a sequence, each stack offset p is at least 0   *)
(* and below the depth of the stack the instruction finds, and the slot at *)
(* offset p from the top holds the result of the labeled (or picked)       *)
(* element it stands for, for labels of the same sequence and of enclosing *)
(* scopes alike; a CALL has as many offsets as the interned function has   *)
(* parameter names.                                                        *)
(***************************************************************************)
\* The labels an action binds for its code: those of its own expression.
BoundWithin(m, o) ==
  /\ o.node.type = "action"
  /\ Len(m.anc) > Len(o.anc)
  /\ SubSeq(m.anc, 1, Len(o.anc)) = o.anc
  /\ m.anc[Len(o.anc) + 1].parent = o.node
  /\ \A k \in (Len(o.anc) + 2)..Len(m.anc) :
       m.anc[k].parent.type \in {"sequence", "labeled", "named"}

\* The bindings in scope at the code of an action or a semantic predicate.
BindingsAt(grammar, o) ==
  {m \in LabeledOccurrences(grammar) : BoundBefore(m, o) \/ BoundWithin(m, o)}

CodeOccurrences(grammar) ==
  {o \in Occurrences(grammar, << >>) :
     o.node.type \in {"action", "semantic_and", "semantic_not"}}

\* The slot was pushed as the result of the expression e.
RECURSIVE Produces(_, _, _, _)
Produces(grammar, code, slot, e) ==
  CASE e.type = "literal" ->
         /\ ~slot.failed
         /\ code[slot.at] = op_ACCEPT_STRING
         /\ grammar.literals[code[slot.at + 1] + 1] = e.value
    [] e.type = "group" -> Produces(grammar, code, slot, e.expression)
    [] e.type = "sequence" ->
         /\ ~slot.failed
         /\ \/ code[slot.at] = op_WRAP /\ code[slot.at + 1] = Len(e.elements)
            \/ code[slot.at] = op_PLUCK /\ code[slot.at + 1] = Len(e.elements) + 1
    [] OTHER -> FALSE

ValidOffset(p, stack) == 0 <= p /\ p < Len(stack)
SlotAt(stack, p) == stack[Len(stack) - p]

CallAsScoped(grammar, code, s) ==
  LET func == grammar.functions[code[s.at + 1] + 1]
      N == code[s.at + 3]
  IN /\ N = Len(func.params)
     /\ \E o \in CodeOccurrences(grammar) :
          /\ o.node.codeLocation = func.location
          /\ \A j \in 1..N :
               LET p == code[s.at + 3 + j]
               IN /\ ValidOffset(p, s.stack)
                  /\ \E m \in BindingsAt(grammar, o) :
                       /\ m.node.label = func.params[j]
                       /\ Produces(grammar, code, SlotAt(s.stack, p), m.node.expression)

Picked(sequence) == SelectSeq(sequence.elements, LAMBDA e : e.type = "labeled" /\ e.pick)

PluckAsPicked(grammar, code, s) ==
  \E o \in {x \in Occurrences(grammar, << >>) : x.node.type = "sequence"} :
    /\ code[s.at + 1] = Len(o.node.elements) + 1
    /\ code[s.at + 2] = Len(Picked(o.node))
    /\ \A j \in 1..code[s.at + 2] :
         LET p == code[s.at + 2 + j]
         IN /\ ValidOffset(p, s.stack)
            /\ Produces(grammar, code, SlotAt(s.stack, p), Picked(o.node)[j].expression)

CallsAndPlucks(code) ==
  {ip \in Starts(code, 1, Len(code) + 1) : code[ip] \in {op_CALL, op_PLUCK}}

C26_OffsetsHoldResults ==
  PassReturned("generateBytecode") =>
    \A code \in Bytecodes(ast) :
      /\ {s.at : s \in Sightings(code)} = CallsAndPlucks(code)
      /\ \A s \in Sightings(code) :
           IF code[s.at] = op_CALL THEN CallAsScoped(ast, code, s)
           ELSE PluckAsPicked(ast, code, s)

\* A function of two parameters was called with the label of an enclosing
\* scope three or more slots below the top, and a PLUCK was emitted.
C26_Witness ==
  /\ PassReturned("generateBytecode")
  /\ \E code \in Bytecodes(ast) :
       /\ \E s \in Sightings(code) :
            /\ code[s.at] = op_CALL
            /\ code[s.at + 3] = 2
            /\ \E j \in 1..2 : code[s.at + 3 + j] >= 3
       /\ \E s \in Sightings(code) : code[s.at] = op_PLUCK

(***************************************************************************)
(* The compositional definition of "always consumes on success", given the *)
(* value V[n] of each rule name n, and left recursion by that definition.  *)
(***************************************************************************)
RECURSIVE RefConsumes(_, _, _)
RefConsumes(grammar, node, V) ==
  CASE node.type = "literal" -> node.value # ""
    [] node.type \in {"class", "any"} -> TRUE
    [] node.type \in {"simple_and", "simple_not", "optional", "zero_or_more",
                      "semantic_and", "semantic_not"} -> FALSE
    [] node.type = "choice" ->
         \A i \in DOMAIN node.alternatives :
           RefConsumes(grammar, node.alternatives[i], V)
    [] node.type = "sequence" ->
         \E i \in DOMAIN node.elements : RefConsumes(grammar, node.elements[i], V)
    [] node.type = "rule_ref" ->
         IF node.name \in RuleNames(grammar) THEN V[node.name] ELSE FALSE
    [] OTHER -> RefConsumes(grammar, node.expression, V)

\* V gives each rule the value of the body of the first rule of that name.
Consistent(grammar, V) ==
  \A n \in RuleNames(grammar) :
    V[n] = RefConsumes(grammar, findRule(grammar, n)[1].expression, V)

\* The least consistent values: those after k rounds from FALSE everywhere.
RECURSIVE ConsumesAfter(_, _)
ConsumesAfter(grammar, k) ==
  IF k = 0 THEN [n \in RuleNames(grammar) |-> FALSE]
  ELSE [n \in RuleNames(grammar) |->
          RefConsumes(grammar, findRule(grammar, n)[1].expression,
                      ConsumesAfter(grammar, k - 1))]
LeastConsumes(grammar) == ConsumesAfter(grammar, Len(grammar.rules) + 1)

\* The references of node in positions reachable without consuming input.
RECURSIVE RefReachable(_, _, _)
RefReachable(grammar, node, V) ==
  CASE node.type = "rule_ref" -> {node.name}
    [] node.type = "sequence" ->
         UNION {RefReachable(grammar, node.elements[i], V) :
                  i \in {k \in DOMAIN node.elements :
                           \A j \in 1..(k - 1) :
                             ~RefConsumes(grammar, node.elements[j], V)}}
    [] node.type = "choice" ->
         UNION {RefReachable(grammar, node.alternatives[i], V) :
                  i \in DOMAIN node.alternatives}
    [] node.type \in WrapperTypes -> RefReachable(grammar, node.expression, V)
    [] OTHER -> {}

RefCalls(grammar, r, n) ==
  /\ n \in RuleNames(grammar)
  /\ n \in RefReachable(grammar, findRule(grammar, r)[1].expression,
                        LeastConsumes(grammar))

RECURSIVE RefCalledFrom(_, _, _)
RefCalledFrom(grammar, S, k) ==
  IF k = 0 THEN S
  ELSE RefCalledFrom(grammar,
         S \cup {n \in RuleNames(grammar) : \E r \in S : RefCalls(grammar, r, n)},
         k - 1)

\* Some rule reaches itself through references in such positions.
HasLeftRecursion(grammar) ==
  \E r \in RuleNames(grammar) :
    r \in RefCalledFrom(grammar,
                        {n \in RuleNames(grammar) : RefCalls(grammar, r, n)},
                        Len(grammar.rules))

\* Consumption family: rules a and b over literals (empty or not), classes,
\* references (X names no rule), every wrapper, sequences and choices, with
\* references after a consuming element.
ConsumeAtoms ==
  {La, Le, Class, RuleRef("a"), RuleRef("b"), RuleRef("X"), SemanticAnd}
ConsumeSimple ==
  ConsumeAtoms
    \cup {Unary(t, e) : t \in {"optional", "zero_or_more", "one_or_more", "text",
                              "simple_and", "simple_not", "group"},
                        e \in {La, RuleRef("b")}}
    \cup {Labeled("l", FALSE, La), Action(La), Action(Le), Named("n", La),
          Named("n", Opt(La)), Plus(Le)}
ConsumePairs ==
  {Sequence(<<x, y>>) : x \in ConsumeSimple, y \in ConsumeAtoms}
    \cup {Choice(<<x, y>>) : x \in ConsumeSimple, y \in ConsumeAtoms}
ConsumeNested ==
  {Choice(<<Sequence(<<x, RuleRef("a")>>), y>>) :
     x \in {La, Le, RuleRef("b")}, y \in {La, Le, RuleRef("b")}}
    \cup {Sequence(<<x, Choice(<<RuleRef("a"), y>>)>>) :
            x \in {La, Le, RuleRef("b")}, y \in {La, Le}}
    \cup {Sequence(<<x, y, RuleRef("a")>>) :
            x \in {Le, Opt(La)}, y \in {La, Le, RuleRef("b")}}
ConsumeBodiesB ==
  {La, Le, Opt(La), RuleRef("a"), Sequence(<<La, RuleRef("a")>>),
   Sequence(<<La, RuleRef("b")>>), Choice(<<La, Le>>)}
ConsumeGrammars ==
  {Grammar(<<Rule("a", x), Rule("b", y)>>) :
     x \in ConsumeSimple \cup ConsumePairs \cup ConsumeNested, y \in ConsumeBodiesB}
    \cup {Grammar(<<Rule("a", x)>>) : x \in ConsumeNested}

InitConsumes == InitWith(ConsumeGrammars, {[allowedStartRules |-> Undefined]})
SpecConsumes == InitConsumes /\ [][Next]_vars

(***************************************************************************)
(* C27.  On every node of a grammar without left recursion                 *)
(* alwaysConsumesOnSuccess returns the value of the compositional          *)
(* definition: the values of the rules are determined by it, and the       *)
(* function returns them without an exception.                             *)
(***************************************************************************)
ConsistentValues(grammar) ==
  {V \in [RuleNames(grammar) -> BOOLEAN] : Consistent(grammar, V)}

C27_ConsumesAsDefined ==
  ~HasLeftRecursion(ast) =>
    /\ LeastConsumes(ast) \in ConsistentValues(ast)
    /\ \A V \in ConsistentValues(ast) :
         \A n \in ExprNodes(ast) :
           alwaysConsumesOnSuccess(ast, n)
             = [value |-> RefConsumes(ast, n, V), thrown |-> NoThrow]

\* reportInfiniteRecursion is about to ask the function about a grammar
\* without left recursion whose rule a is a choice of a sequence that
\* refers to a after an element, and which has consuming and other nodes.
C27_Witness ==
  /\ AtPass("reportInfiniteRecursion")
  /\ ~HasLeftRecursion(ast)
  /\ ast.rules[1].expression.type = "choice"
  /\ ast.rules[1].expression.alternatives[1].type = "sequence"
  /\ \E n \in ExprNodes(ast) :
       n.type = "rule_ref" /\ alwaysConsumesOnSuccess(ast, n).value
  /\ \E n \in ExprNodes(ast) :
       n.type = "choice" /\ ~alwaysConsumesOnSuccess(ast, n).value

(***************************************************************************)
(* C29.  On every grammar without left recursion alwaysConsumesOnSuccess   *)
(* terminates for every node: no call reaches a rule whose evaluation is   *)
(* in progress, also when a rule refers to itself after a consuming        *)
(* element, as in a = "x" a / "y".                                         *)
(***************************************************************************)
C29_ConsumesTerminates ==
  ~HasLeftRecursion(ast) =>
    \A n \in ExprNodes(ast) : alwaysConsumesOnSuccess(ast, n).thrown = NoThrow

\* The grammar a = "a" a / "a" is without left recursion and the pass that
\* calls the function has returned.
C29_Witness ==
  /\ PassReturned("reportInfiniteRepetition")
  /\ ~HasLeftRecursion(ast)
  /\ Len(ast.rules) = 1
  /\ ast.rules[1].expression.type = "choice"
  /\ LET first == ast.rules[1].expression.alternatives[1]
     IN /\ first.type = "sequence"
        /\ first.elements[1].type = "literal" /\ first.elements[1].value = "a"
        /\ first.elements[2].type = "rule_ref" /\ first.elements[2].name = "a"

(***************************************************************************)
(* C28.  A call of error, warning or info on a session whose stage is not  *)
(* set raises the fatal Error and leaves the session as it was: problems,  *)
(* error count and first error are unchanged, no callback is invoked, and  *)
(* checkErrors raises after the call only what it raised before it.        *)
(***************************************************************************)
UnstagedReport ==
  session.stage = Null /\ (CallError \/ CallWarning \/ CallInfo)

C28_UnstagedReportLeavesSession ==
  [][UnstagedReport =>
       /\ thrown' = Throw("Error", <<"Impossible">>)
       /\ session'.problems = session.problems
       /\ session'.errors = session.errors
       /\ session'.firstError = session.firstError
       /\ session'.callbacks = session.callbacks
       /\ checkErrors(session') = checkErrors(session)]_vars

\* Such a call raises the fatal Error and invokes no callback.
C28_UnstagedReportRaises ==
  [][UnstagedReport =>
       /\ thrown' = Throw("Error", <<"Impossible">>)
       /\ session'.callbacks = session.callbacks
       /\ session'.stage = Null]_vars

(***************************************************************************)
(* C30.  For every action and every semantic predicate the parameter names *)
(* of the function interned for it are exactly the labels that the scoping *)
(* rules of reportDuplicateLabels put in scope at that point: the labels   *)
(* of earlier elements of the same sequence and of enclosing scopes (for   *)
(* an action, with those of its own expression), and never a label bound   *)
(* only in a sibling alternative of a choice or inside a finished group,   *)
(* prefixed or suffixed operand.                                           *)
(***************************************************************************)
LabelsAt(grammar, o) == {m.node.label : m \in BindingsAt(grammar, o)}

FunctionsOf(grammar, o) ==
  {f \in Range(grammar.functions) : f.location = o.node.codeLocation}

C30_ParamsAreScope ==
  PassReturned("generateBytecode") =>
    \A o \in CodeOccurrences(ast) :
      /\ FunctionsOf(ast, o) # {}
      /\ \A f \in FunctionsOf(ast, o) :
           /\ Range(f.params) = LabelsAt(ast, o)
           /\ Len(f.params) = Cardinality(LabelsAt(ast, o))

\* A predicate follows a label and an operand with a scope of its own that
\* binds another label: its function has the first label as its only
\* parameter.
C30_Witness ==
  /\ PassReturned("generateBytecode")
  /\ \E o \in CodeOccurrences(ast) :
       /\ Len(o.anc) = 3
       /\ o.anc[3].parent.type = "sequence"
       /\ o.anc[3].idx = 3
       /\ o.anc[3].parent.elements[2].type \in {"group", "optional", "choice"}
       /\ \E m \in LabeledOccurrences(ast) :
            /\ m.node.label \notin LabelsAt(ast, o)
            /\ Len(m.anc) > 3 /\ m.anc[3].idx = 2
       /\ \E f \in FunctionsOf(ast, o) : f.params = <<"x">>

=============================================================================
